---- MODULE Spec2Model ----
(***************************************************************************)
(* DuckyCoder v7: the pipeline orchestrator (duckycoder.py), the           *)
(* deduplicating merger with its similarity scorer (ai_analyzer.py) and    *)
(* the operational mode dispatcher (core/mode_manager.py).                 *)
(*                                                                         *)
(* Python dicts are functions over strings (records), so that the code's   *)
(* `"error" in data` is  "error" \in DOMAIN data.  An insertion-ordered    *)
(* dict whose order matters (processed_data) is kept with its key order.   *)
(* A text is a one-line sequence of lexemes separated by single blanks.    *)
(***************************************************************************)
EXTENDS Integers, Sequences, FiniteSets, TLC

(***************************************************************************)
(* Bounds of the model                                                     *)
(***************************************************************************)
\* largest number of inputs handed to one merge
MaxInputs == 3

(***************************************************************************)
(* Texts                                                                   *)
(***************************************************************************)
\* comment lexemes: "#..." up to the end of the line
CommentLexemes == {"#c", "#d"}

\* str.lower() on one word
Lower(w) == IF w = "F" THEN "f" ELSE w

\* number of characters of one lexeme
Width(w) == IF w \in {"def", "ret"} THEN 3 ELSE IF w \in CommentLexemes THEN 2 ELSE 1

RECURSIVE SumWidth(_)
SumWidth(c) == IF c = <<>> THEN 0 ELSE Width(Head(c)) + SumWidth(Tail(c))

\* len(x['content']): the characters of the lexemes and of the blanks between
StrLen(c) == IF c = <<>> THEN 0 ELSE SumWidth(c) + (Len(c) - 1)

\* the texts the input processor can deliver
Texts ==
    { <<"def", "f", "x">>,
      <<"def", "f", "x", "#c">>,
      <<"def", "f", "x", "#d">>,
      <<"def", "F", "x">>,
      <<"def", "f", "x", "y">>,
      <<"def", "f", "x", "y", "z">>,
      <<"def", "f", "def", "f">>,
      <<>> }

(***************************************************************************)
(* Similarity scorer (AIAnalysisEngine)                                    *)
(***************************************************************************)
RECURSIVE BeforeComment(_)
\* re.sub(r'#.*$', '', content): what stands before the first comment
BeforeComment(c) ==
    IF c = <<>> \/ Head(c) \in CommentLexemes THEN <<>>
    ELSE <<Head(c)>> \o BeforeComment(Tail(c))

\* _tokenize_code: comments stripped, lower-cased, the words in order
_tokenize_code(c) ==
    LET s == BeforeComment(c) IN [i \in 1..Len(s) |-> Lower(s[i])]

IsWord(w) == w \notin CommentLexemes

RECURSIVE FindNames(_, _)
\* re.findall(kw + r'\s+(\w+)', content): non-overlapping, left to right,
\* on the raw text (comments included, case kept)
FindNames(kw, c) ==
    IF Len(c) < 2 THEN <<>>
    ELSE IF c[1] = kw /\ IsWord(c[2])
         THEN <<c[2]>> \o FindNames(kw, SubSeq(c, 3, Len(c)))
         ELSE FindNames(kw, Tail(c))

Range(s) == {s[i] : i \in DOMAIN s}

Max2(a, b) == IF a >= b THEN a ELSE b

\* slip: the common tokens over the tokens of the first text only
_calculate_structural_similarity_First(tokens1, tokens2) ==
    IF tokens1 = <<>> \/ tokens2 = <<>> THEN <<0, 1>>
    ELSE LET set1 == Range(tokens1)
             set2 == Range(tokens2)
         IN  <<Cardinality(set1 \cap set2), Cardinality(set1)>>

\* a fraction is <<numerator, denominator>>
\* _calculate_structural_similarity: Jaccard similarity of the token sets
_calculate_structural_similarity(tokens1, tokens2) ==
    IF tokens1 = <<>> \/ tokens2 = <<>> THEN <<0, 1>>
    ELSE LET set1 == Range(tokens1)
             set2 == Range(tokens2)
         IN  <<Cardinality(set1 \cap set2), Cardinality(set1 \cup set2)>>

\* _calculate_semantic_similarity: common names over the longer name LIST
_calculate_semantic_similarity(content1, content2) ==
    LET funcs1 == FindNames("def", content1) \o FindNames("function", content1)
        funcs2 == FindNames("def", content2) \o FindNames("function", content2)
    IN  IF funcs1 # <<>> /\ funcs2 # <<>>
        THEN <<Cardinality(Range(funcs1) \cap Range(funcs2)),
               Max2(Len(funcs1), Len(funcs2))>>
        ELSE <<1, 2>>

\* difflib.SequenceMatcher.find_longest_match on a[alo+1..ahi], b[blo+1..bhi]:
\* the longest block, of those the earliest in a, of those the earliest in b
BlockAt(a, b, i, j, k) == \A d \in 0..(k - 1) : a[i + d] = b[j + d]

LongestMatch(a, b, alo, ahi, blo, bhi) ==
    LET cands == {m \in ((alo + 1)..ahi) \X ((blo + 1)..bhi) \X (1..(ahi - alo)) :
                     /\ m[1] + m[3] - 1 <= ahi
                     /\ m[2] + m[3] - 1 <= bhi
                     /\ BlockAt(a, b, m[1], m[2], m[3])}
    IN  IF cands = {} THEN <<alo + 1, blo + 1, 0>>
        ELSE CHOOSE m \in cands :
                \A n \in cands :
                    \/ m[3] > n[3]
                    \/ m[3] = n[3] /\ m[1] < n[1]
                    \/ m[3] = n[3] /\ m[1] = n[1] /\ m[2] <= n[2]

RECURSIVE MatchCount(_, _, _, _, _, _)
\* sum of the sizes of SequenceMatcher.get_matching_blocks()
MatchCount(a, b, alo, ahi, blo, bhi) ==
    LET m == LongestMatch(a, b, alo, ahi, blo, bhi)
    IN  IF m[3] = 0 THEN 0
        ELSE m[3] + MatchCount(a, b, alo, m[1] - 1, blo, m[2] - 1)
                  + MatchCount(a, b, m[1] + m[3] - 1, ahi, m[2] + m[3] - 1, bhi)

\* _calculate_syntactic_similarity: SequenceMatcher(None, t1, t2).ratio()
_calculate_syntactic_similarity(tokens1, tokens2) ==
    IF tokens1 = <<>> \/ tokens2 = <<>> THEN <<0, 1>>
    ELSE <<2 * MatchCount(tokens1, tokens2, 0, Len(tokens1), 0, Len(tokens2)),
           Len(tokens1) + Len(tokens2)>>

\* calculate_similarity: 0.4*structural + 0.4*semantic + 0.2*syntactic as an
\* exact fraction (the clamp to [0,1] never changes a value that is already
\* inside the interval)
calculate_similarity(content1, content2) ==
    LET tokens1 == _tokenize_code(content1)
        tokens2 == _tokenize_code(content2)
        st == _calculate_structural_similarity(tokens1, tokens2)
        se == _calculate_semantic_similarity(content1, content2)
        sy == _calculate_syntactic_similarity(tokens1, tokens2)
        num == 4 * st[1] * se[2] * sy[2] + 4 * se[1] * st[2] * sy[2]
                 + 2 * sy[1] * st[2] * se[2]
        den == 10 * st[2] * se[2] * sy[2]
    IN  IF num < 0 THEN <<0, 1>> ELSE IF num > den THEN <<1, 1>> ELSE <<num, den>>

\* slip: a threshold of 0.5
AboveThreshold_Half(sim) == 100 * sim[1] > 50 * sim[2]

\* similarity > 0.85
AboveThreshold(sim) == 100 * sim[1] > 85 * sim[2]

(***************************************************************************)
(* Dict helpers                                                            *)
(***************************************************************************)
\* dict.get(key, default)
DictGet(d, k, default) == IF k \in DOMAIN d THEN d[k] ELSE default

\* the empty dict {}
EmptyDict == [k \in {} |-> 0]

\* d1.update(d2): the entries of d2 win
DictUpdate(d1, d2) == d2 @@ d1

\* an insertion-ordered dict is a sequence of <<key, value>> entries with
\* distinct keys; d[key] = value replaces in place or appends
OrderedKeys(od) == [i \in 1..Len(od) |-> od[i][1]]

OrderedHas(od, k) == \E i \in 1..Len(od) : od[i][1] = k

OrderedGet(od, k) == od[CHOOSE i \in 1..Len(od) : od[i][1] = k][2]

OrderedPut(od, k, v) ==
    IF OrderedHas(od, k)
    THEN [i \in 1..Len(od) |-> IF od[i][1] = k THEN <<k, v>> ELSE od[i]]
    ELSE Append(od, <<k, v>>)

(***************************************************************************)
(* Deduplicating merger (DuckyCoderV7)                                     *)
(***************************************************************************)
\* slip: the primary record is taken as the representative
LongestItem_Primary(all_items) == all_items[1]

\* slip: the last of the longest items is taken
LongestItem_Last(all_items) ==
    all_items[CHOOSE i \in 1..Len(all_items) :
                 /\ \A j \in 1..Len(all_items) :
                        StrLen(all_items[i].content) >= StrLen(all_items[j].content)
                 /\ \A j \in (i + 1)..Len(all_items) :
                        StrLen(all_items[j].content) < StrLen(all_items[i].content)]

\* max(all_items, key=lambda x: len(x['content'])): the first longest item
LongestItem(all_items) ==
    all_items[CHOOSE i \in 1..Len(all_items) :
                 /\ \A j \in 1..Len(all_items) :
                        StrLen(all_items[i].content) >= StrLen(all_items[j].content)
                 /\ \A j \in 1..(i - 1) :
                        StrLen(all_items[j].content) < StrLen(all_items[i].content)]

RECURSIVE MergeMetadata(_)
\* merged_metadata.update(item.get('metadata', {})) for every item in order
MergeMetadata(all_items) ==
    IF all_items = <<>> THEN EmptyDict
    ELSE DictUpdate(MergeMetadata(SubSeq(all_items, 1, Len(all_items) - 1)),
                    DictGet(all_items[Len(all_items)], "metadata", EmptyDict))

_merge_similar_items(primary, similar) ==
    LET all_items == <<primary>> \o similar
    IN  [source |-> "merged_from_" \o ToString(Len(all_items)) \o "_sources",
         content |-> LongestItem(all_items).content,
         metadata |-> MergeMetadata(all_items),
         v7_merge_info |->
             [sources |-> [i \in 1..Len(all_items) |-> all_items[i].source],
              merge_strategy |-> "longest_content_with_metadata_merge"]]

RECURSIVE Ascending(_)
\* the members of a set of indices in increasing order
Ascending(S) ==
    IF S = {} THEN <<>>
    ELSE LET m == CHOOSE x \in S : \A y \in S : x <= y
         IN  <<m>> \o Ascending(S \ {m})

\* the inner loop of _resolve_duplicates for item i: the later, not yet
\* processed items whose similarity with item i exceeds the threshold
SimilarTo(code_items, i, processed) ==
    {j \in (i + 1)..Len(code_items) :
        /\ j \notin processed
        /\ AboveThreshold(calculate_similarity(code_items[i].content,
                                               code_items[j].content))}

RECURSIVE ResolveFrom(_, _, _, _)
\* the outer loop of _resolve_duplicates from item i on
ResolveFrom(code_items, i, processed, unique_items) ==
    IF i > Len(code_items) THEN unique_items
    ELSE IF i \in processed
         THEN ResolveFrom(code_items, i + 1, processed, unique_items)
         ELSE LET similar_items == SimilarTo(code_items, i, processed)
                  idx == Ascending(similar_items)
                  out == IF similar_items # {}
                         THEN _merge_similar_items(code_items[i],
                                  [k \in 1..Len(idx) |-> code_items[idx[k]]])
                         ELSE code_items[i]
              IN  ResolveFrom(code_items, i + 1,
                              processed \cup similar_items \cup {i},
                              Append(unique_items, out))

\* slip: the records of all languages are deduplicated as one list
_resolve_duplicates_AllLanguages(mc) ==
    [mc EXCEPT !.combined_code =
        [language \in DOMAIN mc.combined_code |->
            ResolveFrom(DictGet(mc.combined_code, "python", <<>>)
                        \o DictGet(mc.combined_code, "javascript", <<>>),
                        1, {}, <<>>)]]

\* _resolve_duplicates: every language list longer than one is deduplicated
_resolve_duplicates(mc) ==
    [mc EXCEPT !.combined_code =
        [language \in DOMAIN mc.combined_code |->
            IF Len(mc.combined_code[language]) > 1
            THEN ResolveFrom(mc.combined_code[language], 1, {}, <<>>)
            ELSE mc.combined_code[language]]]

RECURSIVE GroupByType(_, _)
\* the grouping loop of merge_and_combine over processed_data.items()
GroupByType(pd, mc) ==
    IF pd = <<>> THEN mc
    ELSE LET input_key == Head(pd)[1]
             data == Head(pd)[2]
             content_type == DictGet(data, "type", "unknown")
             content == DictGet(data, "content", <<>>)
             language == DictGet(data, "language", "unknown")
             item == [source |-> input_key, content |-> content,
                      metadata |-> DictGet(data, "metadata", EmptyDict)]
             next ==
                 IF "error" \in DOMAIN data THEN mc
                 ELSE IF content_type \in {"code", "script"}
                 THEN [mc EXCEPT !.combined_code =
                          IF language \in DOMAIN mc.combined_code
                          THEN [mc.combined_code EXCEPT
                                   ![language] = Append(@, item)]
                          ELSE (language :> <<item>>) @@ mc.combined_code]
                 ELSE IF content_type \in {"documentation", "markdown", "text"}
                 THEN [mc EXCEPT !.combined_docs =
                          (input_key :> content) @@ mc.combined_docs]
                 ELSE IF content_type \in {"ui", "mockup", "design"}
                 THEN [mc EXCEPT !.combined_ui =
                          (input_key :> data) @@ mc.combined_ui]
                 ELSE mc
         IN  GroupByType(Tail(pd), next)

\* _build_dependency_graph: one node per code item (the texts import nothing)
_build_dependency_graph(combined_code) ==
    [nodes |-> UNION {{[id |-> combined_code[l][i].source, language |-> l,
                        dependencies |-> <<>>] : i \in 1..Len(combined_code[l])} :
                      l \in DOMAIN combined_code},
     edges |-> <<>>,
     clusters |-> EmptyDict]

EmptyMerged ==
    [combined_code |-> EmptyDict,
     combined_docs |-> EmptyDict,
     combined_ui |-> EmptyDict,
     dependency_graph |-> EmptyDict,
     cross_references |-> EmptyDict,
     v7_merge_metadata |-> [merge_strategy |-> "intelligent_dedup",
                            conflict_resolution |-> "ai_powered"]]

\* merge_and_combine: group, build the dependency graph, resolve duplicates
merge_and_combine(pd) ==
    LET grouped == GroupByType(pd, EmptyMerged)
        graphed == [grouped EXCEPT !.dependency_graph =
                       _build_dependency_graph(grouped.combined_code)]
    IN  _resolve_duplicates(graphed)

(***************************************************************************)
(* Pipeline stages (DuckyCoderV7)                                          *)
(***************************************************************************)
\* isinstance(x, dict): an instance of a dataclass carries its class name
IsDict(x) == "class" \notin DOMAIN x

\* what a call can do besides returning a dict: raise
Raises(outcome) == "raises" \in DOMAIN outcome

\* the v7_metadata process_inputs adds to a result
V7Metadata == [version |-> "7.0.0", enhanced_features_used |-> <<>>]

\* the entry process_inputs records for an input whose processing raised
ErrorEntryOf(msg) == [error |-> msg, v7_recovery |-> "attempted"]

\* slip: the input is appended to processed_files before it is processed
ProcessedFilesAfter_Always(files, k, outcome) == Append(files, k)

\* pipeline_state['processed_files'] after one input
ProcessedFilesAfter(files, k, outcome) ==
    IF Raises(outcome) THEN files ELSE Append(files, k)

RECURSIVE ProcessLoop(_, _, _, _)
\* the loop of process_inputs; world[k] is what process_input(k) does
ProcessLoop(inputs, world, pd, files) ==
    IF inputs = <<>> THEN [processed_data |-> pd, processed_files |-> files]
    ELSE LET input_item == Head(inputs)
             outcome == world[input_item]
             entry == IF Raises(outcome) THEN ErrorEntryOf(outcome.raises)
                      ELSE ("v7_metadata" :> V7Metadata) @@ outcome
         IN  ProcessLoop(Tail(inputs), world,
                         OrderedPut(pd, input_item, entry),
                         ProcessedFilesAfter(files, input_item, outcome))

\* the keys of merged_content in insertion order
SectionOrder ==
    <<"combined_code", "combined_docs", "combined_ui", "dependency_graph",
      "cross_references", "v7_merge_metadata">>

\* AnalysisResult(...) as returned by analyze_syntax / _logic / _context
AnalysisResultOf(analyzer) ==
    [class |-> "AnalysisResult", analyzer |-> analyzer, confidence |-> 100]

\* analyze_security (the later definition, which is the one in effect):
\* none of the texts matches a vulnerability pattern
analyze_security(content) ==
    [vulnerabilities |-> <<>>,
     security_score |-> 100,
     recommendations |-> <<>>,
     compliance |-> [OWASP |-> "compliant", CWE |-> "compliant",
                     GDPR |-> "pending", HIPAA |-> "pending"]]

RECURSIVE SumConfidence(_)
SumConfidence(scores) ==
    IF scores = <<>> THEN 0 ELSE Head(scores) + SumConfidence(Tail(scores))

\* _calculate_confidence / _calculate_enhancement_confidence: the mean of the
\* 'confidence' entries of the arguments that are dicts, 0.0 without any;
\* confidences are hundredths, the result is the fraction <<sum, 100 * n>>
_calculate_confidence(analyses) ==
    LET with == SelectSeq(analyses,
                    LAMBDA a : IsDict(a) /\ "confidence" \in DOMAIN a)
        scores == [i \in 1..Len(with) |-> with[i].confidence]
    IN  IF scores # <<>> THEN <<SumConfidence(scores), 100 * Len(scores)>>
        ELSE <<0, 1>>

\* _calculate_enhancement_confidence: the same code over the enhancements
_calculate_enhancement_confidence(enhancements) ==
    LET with == SelectSeq(enhancements,
                    LAMBDA e : IsDict(e) /\ "confidence" \in DOMAIN e)
        scores == [i \in 1..Len(with) |-> with[i].confidence]
    IN  IF scores # <<>> THEN <<SumConfidence(scores), 100 * Len(scores)>>
        ELSE <<0, 1>>

\* the confidences of the Enhancement objects of one type, in list order
ConfidencesOfType(enhancements, type) ==
    LET of_type == SelectSeq(enhancements, LAMBDA e : e.type = type)
    IN  [i \in 1..Len(of_type) |-> of_type[i].confidence]

\* slip: the confidences of the fixes are added up and not divided
_calculate_fixes_confidence_Sum(enhancements) ==
    IF enhancements = <<>> THEN <<1, 1>>
    ELSE LET confidences == ConfidencesOfType(enhancements, "fix")
         IN  IF confidences = <<>> THEN <<8, 10>>
             ELSE <<SumConfidence(confidences), 100>>

\* EnhancementEngine._calculate_fixes_confidence: 1.0 for no enhancements,
\* 0.8 for none of type 'fix', else the mean confidence of the fixes
_calculate_fixes_confidence(enhancements) ==
    IF enhancements = <<>> THEN <<1, 1>>
    ELSE LET confidences == ConfidencesOfType(enhancements, "fix")
         IN  IF confidences = <<>> THEN <<8, 10>>
             ELSE <<SumConfidence(confidences), 100 * Len(confidences)>>

\* EnhancementEngine._calculate_optimizations_confidence: 0.7, 0.6, else the
\* mean confidence of the optimizations times 0.9
_calculate_optimizations_confidence(enhancements) ==
    IF enhancements = <<>> THEN <<7, 10>>
    ELSE LET confidences == ConfidencesOfType(enhancements, "optimization")
         IN  IF confidences = <<>> THEN <<6, 10>>
             ELSE <<9 * SumConfidence(confidences),
                    10 * 100 * Len(confidences)>>

\* EnhancementEngine._calculate_enhancements_confidence: 0.6, 0.5, else the
\* mean confidence of the enhancements times 0.8
_calculate_enhancements_confidence(enhancements) ==
    IF enhancements = <<>> THEN <<6, 10>>
    ELSE LET confidences == ConfidencesOfType(enhancements, "enhancement")
         IN  IF confidences = <<>> THEN <<5, 10>>
             ELSE <<8 * SumConfidence(confidences),
                    10 * 100 * Len(confidences)>>

\* an Enhancement object
Enhancement(type, category, confidence) ==
    [class |-> "Enhancement", type |-> type, category |-> category,
     confidence |-> confidence]

\* ENHANCEMENT_PATTERNS[language]['performance_optimizations']: the construct
\* each pattern matches and its confidence, in order
PerformancePatterns(language) ==
    IF language = "python"
    THEN <<[construct |-> "range_len_loop", confidence |-> 85],
           [construct |-> "append_loop", confidence |-> 80]>>
    ELSE IF language = "javascript"
    THEN <<[construct |-> "length_loop", confidence |-> 75]>>
    ELSE <<>>

RECURSIVE _apply_performance_optimizations(_, _, _, _)
\* _apply_performance_optimizations over the remaining patterns: a match is
\* kept when its confidence reaches self.confidence_threshold; content is
\* the set of constructs that occur in the text
_apply_performance_optimizations(content, patterns, analysis, confidence_threshold) ==
    IF patterns = <<>> THEN <<>>
    ELSE (IF /\ Head(patterns).construct \in content
             /\ Head(patterns).confidence >= confidence_threshold
          THEN <<Enhancement("optimization", "performance",
                             Head(patterns).confidence)>>
          ELSE <<>>)
         \o _apply_performance_optimizations(content, Tail(patterns),
                                              analysis, confidence_threshold)

\* _apply_algorithm_improvements: nested loops in python code
_apply_algorithm_improvements(content, language, analysis) ==
    IF language = "python" /\ "nested_loops" \in content
    THEN <<Enhancement("optimization", "algorithm", 70)>>
    ELSE <<>>

\* _apply_memory_optimizations: string concatenation in a python loop
_apply_memory_optimizations(content, language, analysis) ==
    IF language = "python" /\ "concat_in_loop" \in content
    THEN <<Enhancement("optimization", "memory", 80)>>
    ELSE <<>>

\* apply_optimizations(...).enhancements
apply_optimizations(content, language, analysis, confidence_threshold) ==
    _apply_performance_optimizations(content, PerformancePatterns(language),
                                     analysis, confidence_threshold)
    \o _apply_algorithm_improvements(content, language, analysis)
    \o _apply_memory_optimizations(content, language, analysis)

\* the analysis of one section; fault: the analyzer raises for it
AnalyzeItem(data, fault) ==
    IF fault THEN [error |-> "analyzer failed"]
    ELSE LET syntax_analysis == AnalysisResultOf("syntax")
             logical_analysis == AnalysisResultOf("logic")
             contextual_analysis == AnalysisResultOf("context")
         IN  [syntax |-> syntax_analysis,
              logic |-> logical_analysis,
              context |-> contextual_analysis,
              security |-> analyze_security(data),
              confidence_score |-> _calculate_confidence(
                  <<syntax_analysis, logical_analysis, contextual_analysis>>)]

\* slip: the first failure ends the loop
analyze_content_Abort(mc, faults) ==
    IF faults = {} THEN [k \in DOMAIN mc |-> AnalyzeItem(mc[k], FALSE)]
    ELSE [k \in faults |-> AnalyzeItem(mc[k], TRUE)]

\* analyze_content: one entry per section of merged_content without an
\* 'error' key
analyze_content(mc, faults) ==
    [k \in {x \in DOMAIN mc : "error" \notin DOMAIN mc[x]} |->
        AnalyzeItem(mc[k], k \in faults)]

\* the engines enhance_content can be run with: the repository's
\* EnhancementEngine, whose methods return EnhancementResult instances, and
\* an engine whose methods return the dicts enhance_content reads
Engines == {"EnhancementEngine", "dict_engine"}

EngineResult(engine, type, confidence) ==
    IF engine = "EnhancementEngine"
    THEN [class |-> "EnhancementResult", type |-> type, confidence |-> confidence]
    ELSE [type |-> type, confidence |-> confidence, fixes |-> <<>>,
          optimizations |-> <<>>]

\* apply_core_fixes / apply_optimizations / apply_enhancements: data.get(...)
\* is called in the try block and again in the except block, so that data
\* that is not a dict makes the call raise AttributeError
EngineCall(engine, type, data, confidence) ==
    IF IsDict(data) THEN EngineResult(engine, type, confidence)
    ELSE [raises |-> "'EnhancementResult' object has no attribute 'get'"]

\* the body of the loop of enhance_content for one analysed record
EnhanceItem(analysis, engine, confidence, fault) ==
    LET original_data == analysis
        core_fixes == EngineCall(engine, "core_fixes", original_data, confidence)
        optimizations ==
            IF Raises(core_fixes) THEN core_fixes
            ELSE EngineCall(engine, "optimizations", core_fixes, confidence)
        enhancements ==
            IF Raises(optimizations) THEN optimizations
            ELSE EngineCall(engine, "enhancements", optimizations, confidence)
    IN  IF fault THEN [error |-> "enhancer failed"]
        ELSE IF Raises(enhancements) THEN [error |-> enhancements.raises]
        ELSE IF ~ IsDict(core_fixes)
        THEN [error |-> "'EnhancementResult' object has no attribute 'get'"]
        ELSE [original |-> original_data,
              enhanced |-> enhancements,
              fixes_applied |-> DictGet(core_fixes, "fixes", <<>>),
              optimizations_applied |-> DictGet(optimizations, "optimizations", <<>>),
              ui_mockups |-> "None",
              confidence_score |-> _calculate_confidence(
                  <<core_fixes, optimizations, enhancements>>)]

\* enhance_content: one entry per analysis entry without an 'error' key
enhance_content(analysis, engine, confidence, faults) ==
    [k \in {x \in DOMAIN analysis : "error" \notin DOMAIN analysis[x]} |->
        EnhanceItem(analysis[k], engine, confidence, k \in faults)]

\* the substrings the optimizer looks for that occur in one lexeme of code
NeedlesIn(w) ==
    CASE w = "for" -> {"for"}
      [] w = "[f(x) for x in xs]" -> {"for"}
      [] w = "list(map(f,xs))" -> {"list(", "map"}
      [] w = "map(f,xs)" -> {"map"}
      [] w = "list(f(x)" -> {"list("}
      [] w = "def" -> {"def"}
      [] w = "compute" -> {"compute"}
      [] OTHER -> {}

\* needle in code
Occurs(needle, code) == \E i \in DOMAIN code : needle \in NeedlesIn(code[i])

RECURSIVE DirectIteration(_)
\* re.sub(r'for .+ in range\(len\((.+)\)\)', r'for item in \1', code)
DirectIteration(code) ==
    IF code = <<>> THEN <<>>
    ELSE IF /\ Len(code) >= 4
            /\ code[1] = "for"
            /\ code[3] = "in"
            /\ code[4] = "range(len(xs))"
         THEN <<"for", "item", "in", "xs">>
              \o DirectIteration(SubSeq(code, 5, Len(code)))
         ELSE <<Head(code)>> \o DirectIteration(Tail(code))

\* re.sub(r'list\(map\((.+),\s*(.+)\)\)', r'[\1(x) for x in \2]', code)
ListComprehension(code) ==
    [i \in DOMAIN code |->
        IF code[i] = "list(map(f,xs))" THEN "[f(x) for x in xs]" ELSE code[i]]

\* the loops of the four strategies touch a value that is a dict with a
\* 'content' key
HasContent(value) == IsDict(value) /\ "content" \in DOMAIN value

\* value[key] = value.get(key, []); value[key].append(item)
Suggest(value, key, item) ==
    (key :> Append(DictGet(value, key, <<>>), item)) @@ value

\* _optimize_algorithms on one value: the patterns that match are rewritten
\* in value['content'] (no text here matches the sorted(...)[0] pattern)
AlgorithmsOn(value) ==
    IF ~HasContent(value) THEN value
    ELSE LET original_code == value.content
             optimized_code == ListComprehension(DirectIteration(original_code))
         IN  IF optimized_code # original_code
             THEN Suggest([value EXCEPT !.content = optimized_code],
                          "v7_optimizations", "algorithm_optimization")
             ELSE value

\* _optimize_memory_usage on one value (no text here holds a '+')
MemoryOn(value) ==
    IF HasContent(value) /\ Occurs("list(", value.content)
                         /\ Occurs("for", value.content)
    THEN Suggest(value, "v7_memory_suggestions", "generator expressions")
    ELSE value

\* _add_parallel_processing on one value (no text here holds 'filter',
\* 'process', 'request' or 'fetch')
ParallelOn(value) ==
    IF HasContent(value) /\ Occurs("for", value.content)
                         /\ Occurs("map", value.content)
    THEN Suggest(value, "v7_parallel_suggestions", "multiprocessing")
    ELSE value

\* _implement_caching on one value (no text here holds 'calculate', 'fetch',
\* 'database' or 'query')
CachingOn(value) ==
    IF HasContent(value) /\ Occurs("def", value.content)
                         /\ Occurs("compute", value.content)
    THEN Suggest(value, "v7_caching_suggestions", "memoization")
    ELSE value

\* the dict `content` of the caller after optimize_performance(content): the
\* copies the strategies work on are shallow, so that every nested dict they
\* assign to is the caller's own
ContentAfter(content) ==
    [k \in DOMAIN content |->
        CachingOn(ParallelOn(MemoryOn(AlgorithmsOn(content[k]))))]

\* _calculate_complexity(code)['cyclomatic']: 1 plus the decision words
Cyclomatic(code) ==
    1 + Cardinality({i \in DOMAIN code : "for" \in NeedlesIn(code[i])})

RECURSIVE SumImprovements(_, _, _)
\* the sum of (before - after) / before * 100 over the keys, as a fraction
SumImprovements(keys, before, after) ==
    IF keys = {} THEN <<0, 1>>
    ELSE LET k == CHOOSE x \in keys : TRUE
             rest == SumImprovements(keys \ {k}, before, after)
             b == Cyclomatic(before[k].content)
             a == Cyclomatic(after[k].content)
         IN  <<100 * (b - a) * rest[2] + rest[1] * b, b * rest[2]>>

\* _calculate_improvement: the mean improvement of the cyclomatic
\* complexities (unrounded), 10.0 when there is nothing to compare
_calculate_improvement(before, after) ==
    LET keys == {k \in DOMAIN before : HasContent(before[k])}
        total == SumImprovements(keys, before, after)
    IN  IF keys = {} THEN <<10, 1>>
        ELSE <<total[1], total[2] * Cardinality(keys)>>

\* optimize_performance: a shallow copy of the content, worked on by the
\* four enabled strategies, plus the report
optimize_performance(content) ==
    ("v7_optimization_report" :>
        [optimizations_applied |-> <<"algorithm_optimization",
                                     "memory_optimization",
                                     "parallel_processing", "caching">>,
         overall_improvement |->
            _calculate_improvement(content, ContentAfter(content))])
    @@ ContentAfter(content)

RECURSIVE IssuesFor(_, _, _)
\* the issues one loop of _validate_pipeline_results appends: one for each
\* key, in order, that fails the loop's test
IssuesFor(keys, failing, text) ==
    IF keys = <<>> THEN <<>>
    ELSE (IF Head(keys) \in failing THEN << <<text, Head(keys)>> >> ELSE <<>>)
         \o IssuesFor(Tail(keys), failing, text)

\* confidence_score < 0.7 on the fraction
Below07(score) == 10 * score[1] < 7 * score[2]

RequiredSections == <<"summary", "analysis", "enhancements", "metadata">>

_validate_pipeline_results(pd, analysis, enhanced, optimized) ==
    LET keys == OrderedKeys(pd)
        enhanced_keys == SelectSeq(SectionOrder, LAMBDA k : k \in DOMAIN enhanced)
        data_issues ==
            IssuesFor(keys,
                      {k \in Range(keys) : "error" \in DOMAIN OrderedGet(pd, k)},
                      "Data processing error for")
        analysis_issues ==
            IssuesFor(keys,
                      {k \in Range(keys) :
                          \/ k \notin DOMAIN analysis
                          \/ "error" \in DOMAIN DictGet(analysis, k, EmptyDict)},
                      "Analysis incomplete for")
        enhancement_issues ==
            IssuesFor(enhanced_keys,
                      {k \in DOMAIN enhanced :
                          \/ "error" \in DOMAIN enhanced[k]
                          \/ Below07(DictGet(enhanced[k], "confidence_score",
                                             <<0, 1>>))},
                      "Enhancement quality low for")
        structure_issues ==
            IssuesFor(RequiredSections,
                      {k \in Range(RequiredSections) : k \notin DOMAIN optimized},
                      "Missing output section:")
    IN  [data_integrity |-> data_issues = <<>>,
         analysis_completeness |-> analysis_issues = <<>>,
         enhancement_quality |-> enhancement_issues = <<>>,
         output_structure |-> structure_issues = <<>>,
         issues |-> data_issues \o analysis_issues \o enhancement_issues
                    \o structure_issues]

\* OutputComposer.EXPORT_FORMATS: format -> extension
EXPORT_FORMATS ==
    [markdown |-> ".md", html |-> ".html", json |-> ".json", yaml |-> ".yaml",
     pdf |-> ".pdf", sarif |-> ".sarif", codebase |-> ".zip",
     git_diff |-> ".diff"]

\* the wall clock advances in ticks of which this many make a second
TicksPerSecond == 2

\* datetime.now().strftime("%Y%m%d_%H%M%S"): the time down to the second
Timestamp(now) == now \div TicksPerSecond

\* os.path.join(output_dir, f"duckycoder_report_{timestamp}{extension}"), as
\* the parts that make up the name
ReportPath(now, extension) ==
    <<"duckycoder_report", Timestamp(now), extension>>

\* slip: a format that is not supported is written without an extension
export_format_Lenient(format_type, writer_faults, now) ==
    IF format_type \in writer_faults
    THEN [raises |-> "write failed"]
    ELSE [path |-> ReportPath(now, DictGet(EXPORT_FORMATS, format_type, ""))]

\* OutputComposer.export_format called when the clock shows now: the path
\* written, or the error raised
export_format(format_type, writer_faults, now) ==
    IF format_type \notin DOMAIN EXPORT_FORMATS
    THEN [raises |-> "Unsupported export format"]
    ELSE IF format_type \in writer_faults
    THEN [raises |-> "write failed"]
    ELSE [path |-> ReportPath(now, EXPORT_FORMATS[format_type])]

RECURSIVE export_results(_, _, _, _)
\* export_results: one entry per requested format, a path or "Error: ...";
\* the whole loop runs at the clock reading now
export_results(output_data, export_formats, writer_faults, now) ==
    IF export_formats = <<>> THEN EmptyDict
    ELSE LET n == Len(export_formats)
             format_type == export_formats[n]
             out == export_format(format_type, writer_faults, now)
         IN  (format_type :> (IF Raises(out) THEN [error |-> out.raises] ELSE out))
             @@ export_results(output_data, SubSeq(export_formats, 1, n - 1),
                               writer_faults, now)

\* slip: a run with validation issues is reported as failed
FinalStatus_Strict(validation) ==
    IF validation.issues = <<>> THEN "completed" ELSE "failed"

\* the status of a run that reached the end of the try block
FinalStatus(validation) == "completed"

\* slip: the process command exits with 0 whatever the run returned
ExitCode_Zero(results) == 0

\* main, process command: sys.exit(1) unless the run is "completed"
ExitCode(results) ==
    IF DictGet(results, "pipeline_status", "None") = "completed" THEN 0 ELSE 1

(***************************************************************************)
(* The mode dispatcher (OperationalModeManager)                            *)
(***************************************************************************)
\* the handler registry built by __init__
mode_handlers ==
    [merge_only |-> "_handle_merge_only",
     analyze_only |-> "_handle_analyze_only",
     full_pipeline |-> "_handle_full_pipeline",
     dry_run |-> "_handle_dry_run",
     realtime_collaboration |-> "_handle_realtime_collaboration",
     continuous_integration |-> "_handle_continuous_integration",
     security_scanning |-> "_handle_security_scanning",
     ui_design |-> "_handle_ui_design",
     debug_assistant |-> "_handle_debug_assistant",
     api_validation |-> "_handle_api_validation",
     doc_generator |-> "_handle_doc_generator",
     performance_profiling |-> "_handle_performance_profiling",
     quantum_computing |-> "_handle_quantum_computing"]

\* a value of the modes section: a mapping, or a plain boolean
DictFlag(dict) == [kind |-> "dict", dict |-> dict]
BoolFlag(flag) == [kind |-> "bool", flag |-> flag]

\* ConfigurationManager._get_default_config()['modes'], the keys the
\* dispatcher and the handlers read
DefaultModes ==
    [full_pipeline |-> BoolFlag(TRUE),
     realtime_collaboration |-> DictFlag([enabled |-> FALSE]),
     continuous_integration |-> DictFlag([enabled |-> FALSE]),
     security_scanning |-> DictFlag([enabled |-> TRUE]),
     ui_design |-> DictFlag([framework |-> "auto"]),
     debug_assistant |-> BoolFlag(TRUE),
     api_validation |-> BoolFlag(TRUE),
     doc_generator |-> BoolFlag(TRUE),
     performance_profiling |-> DictFlag([enabled |-> TRUE]),
     quantum_computing |-> DictFlag([enabled |-> FALSE])]

\* None, where a dict is optional
None == [none |-> "None"]

\* None, where a string is optional
NoError == "None"

\* what a handler can do besides returning its data: raise
AttributeErrorOf(type, attr) ==
    [raises |-> "'" \o type \o "' object has no attribute '" \o attr \o "'"]

\* the handlers that start by reading their section of modes_config, with
\* the default of their own enabled test ("none": the handler has no test)
HandlerEnabledDefault ==
    [realtime_collaboration |-> "False",
     continuous_integration |-> "False",
     security_scanning |-> "True",
     ui_design |-> "none",
     performance_profiling |-> "True",
     quantum_computing |-> "False"]

NotEnabledMessage ==
    [realtime_collaboration |-> "Real-time collaboration is not enabled",
     continuous_integration |-> "Continuous integration is not enabled",
     security_scanning |-> "Security scanning is not enabled",
     performance_profiling |-> "Performance profiling is not enabled",
     quantum_computing |-> "Quantum computing support is not enabled"]

\* the handlers that iterate context.input_data.items()
IteratesInput ==
    {"merge_only", "analyze_only", "dry_run", "security_scanning", "ui_design",
     "debug_assistant", "api_validation", "doc_generator",
     "performance_profiling", "quantum_computing"}

\* self.modes_config.get(mode_name, {})
ModeConfigOf(modes_config, mode_name) ==
    IF mode_name \in DOMAIN modes_config THEN modes_config[mode_name]
    ELSE DictFlag(EmptyDict)

\* a new entry of collaboration_sessions
NewSession ==
    [participants |-> <<>>, shared_state |-> EmptyDict, change_log |-> <<>>,
     conflict_resolution |-> "auto"]

\* slip: joining an existing session writes to its change log
JoinSession_Log(sessions, session_id) ==
    IF session_id \in DOMAIN sessions
    THEN [sessions EXCEPT ![session_id].change_log = Append(@, "join")]
    ELSE (session_id :> NewSession) @@ sessions

\* "create or join": the entry is made only when the id has none
JoinSession(sessions, session_id) ==
    IF session_id \in DOMAIN sessions THEN sessions
    ELSE (session_id :> NewSession) @@ sessions

\* one handler call: the data it returns or the exception it raises, and
\* collaboration_sessions after it
Handler(mode_name, context, modes_config, sessions) ==
    LET cfg == ModeConfigOf(modes_config, mode_name)
        reads == mode_name \in DOMAIN HandlerEnabledDefault
        default == IF reads THEN HandlerEnabledDefault[mode_name] ELSE "none"
        stay(out) == [out |-> out, sessions |-> sessions]
    IN  IF reads /\ cfg.kind = "bool"
        THEN stay(AttributeErrorOf("bool", "get"))
        ELSE IF /\ reads
                /\ default # "none"
                /\ ~ DictGet(cfg.dict, "enabled", default = "True")
        THEN stay([error |-> NotEnabledMessage[mode_name]])
        ELSE IF mode_name = "realtime_collaboration"
        THEN LET session_id == DictGet(context.metadata, "session_id", "default")
                 after == JoinSession(sessions, session_id)
             IN  [out |-> [session_id |-> session_id,
                           current_participants |->
                               Len(after[session_id].participants),
                           session_status |-> "active"],
                  sessions |-> after]
        ELSE IF mode_name \in IteratesInput /\ context.input_data = None
        THEN stay(AttributeErrorOf("NoneType", "items"))
        ELSE stay([handler |-> mode_handlers[mode_name],
                   input_keys |-> IF mode_name \in IteratesInput
                                  THEN DOMAIN context.input_data ELSE {}])

\* ModeResult(...)
ModeResult(mode_name, success, data, error, status) ==
    [mode_name |-> mode_name, success |-> success, data |-> data,
     error |-> error, status |-> status]

\* slip: an exception is logged and the mode reported as succeeded
ResultOf_Swallow(mode_name, out) ==
    ModeResult(mode_name, TRUE, IF Raises(out) THEN None ELSE out, NoError,
               "completed")

\* the two ends of the try block of execute_mode: the handler returned, or
\* an exception was caught
ResultOf(mode_name, out) ==
    IF Raises(out)
    THEN ModeResult(mode_name, FALSE, None, out.raises, "failed")
    ELSE ModeResult(mode_name, TRUE, out, NoError, "completed")

\* slip: every name is taken to be registered
IsRegistered_Any(mode_name) == TRUE

\* mode_name in self.mode_handlers
IsRegistered(mode_name) == mode_name \in DOMAIN mode_handlers

\* execute_mode: the result, collaboration_sessions after the call, and
\* whether the handler was invoked
execute_mode(mode_name, context, modes_config, sessions) ==
    LET mode_config == ModeConfigOf(modes_config, mode_name)
        skip(result) ==
            [result |-> result, sessions |-> sessions, invoked |-> FALSE]
    IN  IF ~ IsRegistered(mode_name)
        THEN skip(ResultOf(mode_name, [raises |-> "Unknown mode: " \o mode_name]))
        ELSE IF /\ mode_config.kind = "dict"
                /\ ~ DictGet(mode_config.dict, "enabled", TRUE)
        THEN skip(ModeResult(mode_name, FALSE, None,
                             "Mode " \o mode_name \o " is disabled", "disabled"))
        ELSE IF mode_name \notin DOMAIN mode_handlers
        THEN skip(ResultOf(mode_name, [raises |-> "'" \o mode_name \o "'"]))
        ELSE LET h == Handler(mode_name, context, modes_config, sessions)
             IN  [result |-> ResultOf(mode_name, h.out),
                  sessions |-> h.sessions, invoked |-> TRUE]

\* the loop of execute_multiple_modes over the gathered results: an exception
\* becomes a failed ModeResult, a ModeResult is passed on
GatheredResult(mode_name, outcome) ==
    IF Raises(outcome)
    THEN ModeResult(mode_name, FALSE, None, outcome.raises, "exception")
    ELSE outcome

(***************************************************************************)
(* State                                                                   *)
(***************************************************************************)
VARIABLES
    processed_data,     \* the ordered dict returned by process_inputs
    merged_content,     \* the merged content (local, and kept in pipeline_state)
    phase,              \* the position of the control flow
    engine,             \* the enhancement engine the orchestrator holds
    inputs,             \* the inputs argument of the running run_full_pipeline
    world,              \* what process_input does for each input of the run
    processed_files,    \* pipeline_state['processed_files']
    analysis_results,   \* the local of run_full_pipeline, as those below
    enhanced_content,
    ui_results,
    optimized_content,
    security_results,
    validation_results,
    exported,           \* the local export_results
    final_results,      \* what run_full_pipeline returned
    raised,             \* history: the evaluator calls that raised in this run
    stage_log,          \* history: the "Phase k/9" lines logged by this run
    runs,               \* the number of calls of run_full_pipeline so far
    modes_config,       \* OperationalModeManager.modes_config
    collaboration_sessions, \* OperationalModeManager.collaboration_sessions
    mode_pc,            \* the position of execute_multiple_modes
    mode_names,         \* its arguments
    context,
    tasks,              \* the tasks it created, one per requested name
    mode_results,       \* the list it returned
    sessions_before,    \* history: collaboration_sessions when it was called
    export_request,     \* history: the formats run_full_pipeline handed to
                        \* export_results, and the writers that fail
    command,            \* args.command of the last invocation of main
    exit_code,          \* the exit code of that invocation, -1 before it
    fn,                 \* the function a caller applied last
    args,               \* the arguments of that call, as the caller holds them
    result,             \* what the call returned
    analyzer,           \* the attributes of the AIAnalysisEngine instance
    clock,              \* the wall clock, in ticks
    written             \* the files in the output directory, in writing order

run_vars ==
    <<engine, inputs, world, processed_files, analysis_results,
      enhanced_content, ui_results, optimized_content, security_results,
      validation_results, exported, final_results, raised, stage_log, runs>>

mode_vars ==
    <<modes_config, collaboration_sessions, mode_pc, mode_names, context,
      tasks, mode_results, sessions_before>>

cli_vars == <<export_request, command, exit_code>>

call_vars == <<fn, args, result, analyzer, clock, written>>

vars ==
    <<processed_data, merged_content, phase, run_vars, mode_vars, cli_vars,
      call_vars>>

\* the input identities, in the order in which they are handed in
InputNames == <<"a.py", "b.py", "c.py", "d.py", "e.py", "f.py">>

Languages == {"python", "javascript"}

\* what input_processor.process_input can return
ProcessorResults ==
    {[type |-> "code", language |-> l, content |-> t,
      metadata |-> [size |-> StrLen(t)]] : l \in Languages, t \in Texts}
    \cup {[type |-> ty, language |-> "unknown", content |-> <<"x">>,
           metadata |-> [size |-> 1]] : ty \in {"documentation", "ui", "data"}}

\* the entry process_inputs records for an input whose processing raised
ErrorEntry == ErrorEntryOf("cannot read input")

NoneRaised == [analysis |-> {}, enhancement |-> {}, escaped |-> "none"]

\* a mode manager that has not been called
FreshManager ==
    /\ collaboration_sessions = EmptyDict
    /\ mode_pc = "idle"
    /\ mode_names = <<>>
    /\ context = None
    /\ tasks = <<>>
    /\ mode_results = <<>>
    /\ sessions_before = EmptyDict

\* the locals of a run before it has computed anything
FreshRun ==
    /\ inputs = <<>>
    /\ world = EmptyDict
    /\ analysis_results = EmptyDict
    /\ enhanced_content = EmptyDict
    /\ ui_results = EmptyDict
    /\ optimized_content = EmptyDict
    /\ security_results = EmptyDict
    /\ validation_results = EmptyDict
    /\ exported = EmptyDict
    /\ final_results = EmptyDict
    /\ raised = NoneRaised
    /\ stage_log = <<>>

\* no invocation of main yet, nothing handed to export_results
FreshCli ==
    /\ export_request = <<>>
    /\ command = "none"
    /\ exit_code = -1

\* what __init__ leaves in the AIAnalysisEngine instance
FreshAnalyzer ==
    [v7_features |-> {"dependency_extraction", "similarity_detection",
                      "security_scanning", "ml_optimization"},
     analysis_cache |-> EmptyDict]

\* no function applied yet, an empty output directory
FreshCalls ==
    /\ fn = "none"
    /\ args = <<>>
    /\ result = <<>>
    /\ analyzer = FreshAnalyzer
    /\ clock = 0
    /\ written = <<>>

(***************************************************************************)
(* The merger on its own: every ingested record list, merged, merged again *)
(***************************************************************************)
MergeInit ==
    /\ \E n \in 1..MaxInputs :
         \E f \in [1..n -> ProcessorResults \cup {ErrorEntry}] :
            processed_data = [i \in 1..n |-> <<InputNames[i], f[i]>>]
    /\ merged_content = EmptyMerged
    /\ phase = "ingested"
    /\ engine = "EnhancementEngine"
    /\ processed_files = <<>>
    /\ runs = 0
    /\ FreshRun
    /\ FreshCli
    /\ FreshCalls
    /\ modes_config = DefaultModes
    /\ FreshManager

Merge ==
    /\ phase = "ingested"
    /\ merged_content' = merge_and_combine(processed_data)
    /\ phase' = "merged"
    /\ UNCHANGED <<processed_data, run_vars, mode_vars, cli_vars, call_vars>>

ResolveAgain ==
    /\ phase = "merged"
    /\ merged_content' = _resolve_duplicates(merged_content)
    /\ phase' = "resolved_again"
    /\ UNCHANGED <<processed_data, run_vars, mode_vars, cli_vars, call_vars>>

MergeNext == Merge \/ ResolveAgain

MergeSpec == MergeInit /\ [][MergeNext]_vars

(***************************************************************************)
(* The orchestrator: run_full_pipeline, one action per phase               *)
(***************************************************************************)
MaxRunInputs == 2
MaxRuns == 2

\* the identities a run can be handed, repetitions included
RunNames == {"a.py", "b.py"}

RECURSIVE SeqsUpTo(_, _)
SeqsUpTo(S, n) ==
    IF n = 0 THEN {<<>>}
    ELSE LET shorter == SeqsUpTo(S, n - 1)
         IN  shorter \cup {Append(q, x) : q \in {r \in shorter : Len(r) = n - 1},
                                          x \in S}

\* what process_input can do for an input of a run: raise, or return one of
\* these results
RunOutcomes ==
    {[raises |-> "cannot read input"]}
    \cup {r \in ProcessorResults :
            /\ r.type \in {"code", "documentation"}
            /\ r.type = "code" =>
                 /\ r.language = "python"
                 /\ r.content \in {<<"def", "f", "x">>, <<"def", "f", "x", "#c">>}}

\* the identities are interchangeable: the lists of a run start with a.py
RunInputs ==
    {q \in SeqsUpTo(RunNames, MaxRunInputs) : q # <<>> => q[1] = "a.py"}

\* the formats a run can be asked for, None and [] select the default, each
\* with the formats whose writer fails
ExportChoices ==
    {<< <<>>, {} >>, << <<>>, {"json"} >>, << <<"json", "docx">>, {} >>,
     << <<"html", "json", "html">>, {} >>}

DefaultFormats == <<"markdown", "json", "html">>

\* the sections for which an evaluator is made to raise
FaultSections == {"combined_code", "cross_references"}

\* an evaluator raises for no record or for one record of its batch
FaultChoices == {{}} \cup {{k} : k \in FaultSections}

\* the confidence (in hundredths) the methods of dict_engine report
EngineConfidences == {60, 90}

\* the phases of run_full_pipeline in program order
StageOrder ==
    <<"ingestion", "merging", "analysis", "enhancement", "ui_generation",
      "optimization", "security", "validation", "export">>

StageIndex(stage) == CHOOSE i \in 1..Len(StageOrder) : StageOrder[i] = stage

\* slip: the UI phase is jumped over
NextStage_SkipUI(stage) ==
    IF stage = "export" THEN "done"
    ELSE IF stage = "enhancement" THEN "optimization"
    ELSE StageOrder[StageIndex(stage) + 1]

\* the statement sequence of the try block: what runs after a phase
NextStage(stage) ==
    IF stage = "export" THEN "done" ELSE StageOrder[StageIndex(stage) + 1]

\* entering a phase logs its line, leaving it moves on to the next one
Advance(stage) ==
    /\ phase = stage
    /\ stage_log' = Append(stage_log, stage)
    /\ phase' = NextStage(stage)

\* the except block of run_full_pipeline
Fail(stage, msg) ==
    /\ phase = stage
    /\ stage_log' = Append(stage_log, stage)
    /\ phase' = "done"
    /\ raised' = [raised EXCEPT !.escaped = stage]
    /\ final_results' = [pipeline_status |-> "failed", error |-> msg]

Init ==
    /\ processed_data = <<>>
    /\ merged_content = EmptyDict
    /\ phase = "idle"
    /\ engine \in Engines
    /\ processed_files = <<>>
    /\ runs = 0
    /\ FreshRun
    /\ FreshCli
    /\ FreshCalls
    /\ modes_config = DefaultModes
    /\ FreshManager

\* the locals of run_full_pipeline when none of them is bound
FreshLocals ==
    /\ processed_data' = <<>>
    /\ analysis_results' = EmptyDict
    /\ enhanced_content' = EmptyDict
    /\ ui_results' = EmptyDict
    /\ optimized_content' = EmptyDict
    /\ security_results' = EmptyDict
    /\ validation_results' = EmptyDict
    /\ exported' = EmptyDict
    /\ final_results' = EmptyDict
    /\ raised' = NoneRaised
    /\ stage_log' = <<>>
    /\ export_request' = <<>>

\* main runs the process command: run_full_pipeline(inputs, ...) is called
StartRun ==
    /\ phase = "idle"
    /\ runs < MaxRuns
    /\ runs' = runs + 1
    /\ \E ins \in RunInputs :
         /\ inputs' = ins
         /\ world' \in [Range(ins) -> RunOutcomes]
    /\ FreshLocals
    /\ phase' = "ingestion"
    /\ command' = "process"
    /\ exit_code' = -1
    /\ UNCHANGED <<merged_content, engine, processed_files>>
    /\ UNCHANGED <<mode_vars, call_vars>>

\* Phase 1: process_inputs
Ingest ==
    /\ Advance("ingestion")
    /\ LET r == ProcessLoop(inputs, world, <<>>, processed_files)
       IN  /\ processed_data' = r.processed_data
           /\ processed_files' = r.processed_files
    /\ UNCHANGED <<merged_content, engine, inputs, world, analysis_results,
                   enhanced_content, ui_results, optimized_content,
                   security_results, validation_results, exported,
                   final_results, raised, runs>>
    /\ UNCHANGED <<cli_vars, mode_vars, call_vars>>

\* Phase 2: merge_and_combine
MergeStage ==
    /\ Advance("merging")
    /\ merged_content' = merge_and_combine(processed_data)
    /\ UNCHANGED <<processed_data, engine, inputs, world, processed_files,
                   analysis_results, enhanced_content, ui_results,
                   optimized_content, security_results, validation_results,
                   exported, final_results, raised, runs>>
    /\ UNCHANGED <<cli_vars, mode_vars, call_vars>>

\* Phase 3: analyze_content; the analyzer raises for the sections in faults
Analyze ==
    /\ Advance("analysis")
    /\ \E faults \in FaultChoices :
         /\ analysis_results' = analyze_content(merged_content, faults)
         /\ raised' = [raised EXCEPT !.analysis = faults]
    /\ UNCHANGED <<processed_data, merged_content, engine, inputs, world,
                   processed_files, enhanced_content, ui_results,
                   optimized_content, security_results, validation_results,
                   exported, final_results, runs>>
    /\ UNCHANGED <<cli_vars, mode_vars, call_vars>>

\* the records of the enhancement batch for which the engine raises
EnhancerRaisesFor(analysis, faults) ==
    {k \in DOMAIN analysis :
        /\ "error" \notin DOMAIN analysis[k]
        /\ \/ k \in faults
           \/ engine = "EnhancementEngine"}

\* Phase 4: enhance_content
Enhance ==
    /\ Advance("enhancement")
    /\ \E faults \in FaultChoices, confidence \in EngineConfidences :
         /\ engine = "EnhancementEngine" => faults = {} /\ confidence = 90
         /\ confidence = 60 => faults = {}
         /\ enhanced_content' =
                enhance_content(analysis_results, engine, confidence, faults)
         /\ raised' = [raised EXCEPT
                          !.enhancement = EnhancerRaisesFor(analysis_results, faults)]
    /\ UNCHANGED <<processed_data, merged_content, engine, inputs, world,
                   processed_files, analysis_results, ui_results,
                   optimized_content, security_results, validation_results,
                   exported, final_results, runs>>
    /\ UNCHANGED <<cli_vars, mode_vars, call_vars>>

\* Phase 5: ui_generator.generate_mockups returns
RenderUI ==
    /\ Advance("ui_generation")
    /\ ui_results' = [mockups |-> <<>>]
    /\ UNCHANGED <<processed_data, merged_content, engine, inputs, world,
                   processed_files, analysis_results, enhanced_content,
                   optimized_content, security_results, validation_results,
                   exported, final_results, raised, runs>>
    /\ UNCHANGED <<cli_vars, mode_vars, call_vars>>

\* Phase 5: ui_generator.generate_mockups raises
RenderUIRaises ==
    /\ Fail("ui_generation", "mockup generation failed")
    /\ UNCHANGED <<processed_data, merged_content, engine, inputs, world,
                   processed_files, analysis_results, enhanced_content,
                   ui_results, optimized_content, security_results,
                   validation_results, exported, runs>>
    /\ UNCHANGED <<cli_vars, mode_vars, call_vars>>

\* Phase 6: ml_optimizer.optimize_performance returns
Optimize ==
    /\ Advance("optimization")
    /\ optimized_content' = optimize_performance(enhanced_content)
    /\ enhanced_content' = ContentAfter(enhanced_content)
    /\ UNCHANGED <<processed_data, merged_content, engine, inputs, world,
                   processed_files, analysis_results, ui_results,
                   security_results, validation_results, exported,
                   final_results, raised, runs>>
    /\ UNCHANGED <<cli_vars, mode_vars, call_vars>>

\* Phase 6: ml_optimizer.optimize_performance raises
OptimizeRaises ==
    /\ Fail("optimization", "optimizer failed")
    /\ UNCHANGED <<processed_data, merged_content, engine, inputs, world,
                   processed_files, analysis_results, enhanced_content,
                   ui_results, optimized_content, security_results,
                   validation_results, exported, runs>>
    /\ UNCHANGED <<cli_vars, mode_vars, call_vars>>

\* Phase 7: ai_analyzer.analyze_security returns
SecurityScan ==
    /\ Advance("security")
    /\ security_results' = analyze_security(optimized_content)
    /\ UNCHANGED <<processed_data, merged_content, engine, inputs, world,
                   processed_files, analysis_results, enhanced_content,
                   ui_results, optimized_content, validation_results,
                   exported, final_results, raised, runs>>
    /\ UNCHANGED <<cli_vars, mode_vars, call_vars>>

\* Phase 7: ai_analyzer.analyze_security raises
SecurityScanRaises ==
    /\ Fail("security", "security scan failed")
    /\ UNCHANGED <<processed_data, merged_content, engine, inputs, world,
                   processed_files, analysis_results, enhanced_content,
                   ui_results, optimized_content, security_results,
                   validation_results, exported, runs>>
    /\ UNCHANGED <<cli_vars, mode_vars, call_vars>>

\* Phase 8: _validate_pipeline_results
Validate ==
    /\ Advance("validation")
    /\ validation_results' =
          _validate_pipeline_results(processed_data, analysis_results,
                                     enhanced_content, optimized_content)
    /\ UNCHANGED <<processed_data, merged_content, engine, inputs, world,
                   processed_files, analysis_results, enhanced_content,
                   ui_results, optimized_content, security_results,
                   exported, final_results, raised, runs>>
    /\ UNCHANGED <<cli_vars, mode_vars, call_vars>>

\* Phase 9: export_results, then the final results are compiled and returned
Export ==
    /\ Advance("export")
    /\ \E choice \in ExportChoices :
         LET export_formats == choice[1]
             writer_faults == choice[2]
             formats == IF export_formats = <<>> THEN DefaultFormats
                        ELSE export_formats
             out == export_results(optimized_content, formats, writer_faults,
                                   clock)
         IN  /\ export_request' = <<formats, writer_faults>>
             /\ exported' = out
             /\ final_results' =
                  [pipeline_status |-> FinalStatus(validation_results),
                   input_count |-> Len(inputs),
                   export_results |-> out,
                   pipeline_metrics |->
                      [files_processed |-> Len(processed_files),
                       issues_detected |-> Len(validation_results.issues),
                       security_vulnerabilities |->
                          Len(security_results.vulnerabilities)]]
    /\ UNCHANGED <<processed_data, merged_content, engine, inputs, world,
                   processed_files, analysis_results, enhanced_content,
                   ui_results, optimized_content, security_results,
                   validation_results, raised, runs, command, exit_code>>
    /\ UNCHANGED <<mode_vars, call_vars>>

\* run_full_pipeline has returned: its locals are gone, pipeline_state stays,
\* and the orchestrator can be called again
Return ==
    /\ phase = "done"
    /\ phase' = "idle"
    /\ inputs' = <<>>
    /\ world' = EmptyDict
    /\ merged_content' = EmptyDict
    /\ FreshLocals
    /\ exit_code' = ExitCode(final_results)
    /\ UNCHANGED <<engine, processed_files, runs, command>>
    /\ UNCHANGED <<mode_vars, call_vars>>

\* main runs the version command: it prints the version and returns
VersionCommand ==
    /\ phase = "idle"
    /\ command' = "version"
    /\ exit_code' = 0
    /\ UNCHANGED <<processed_data, merged_content, phase, run_vars,
                   export_request, mode_vars, call_vars>>

\* main runs the config command: init, validate or show, then it returns
ConfigCommand ==
    /\ phase = "idle"
    /\ command' = "config"
    /\ exit_code' = 0
    /\ UNCHANGED <<processed_data, merged_content, phase, run_vars,
                   export_request, mode_vars, call_vars>>



Next ==
    \/ StartRun
    \/ Ingest
    \/ MergeStage
    \/ Analyze
    \/ Enhance
    \/ RenderUI
    \/ RenderUIRaises
    \/ Optimize
    \/ OptimizeRaises
    \/ SecurityScan
    \/ SecurityScanRaises
    \/ Validate
    \/ Export
    \/ Return
    \/ VersionCommand
    \/ ConfigCommand

Spec == Init /\ [][Next]_vars

(***************************************************************************)
(* The mode dispatcher: execute_multiple_modes, one step per mode task     *)
(***************************************************************************)
MaxModes == 2

\* the names a batch can ask for: one of each kind of handler, and a name
\* that is not registered
RequestNames ==
    {"full_pipeline", "debug_assistant", "realtime_collaboration",
     "security_scanning", "ui_design", "nonexistent_mode"}

\* the shapes a section of modes can have
FlagShapes ==
    {DictFlag([enabled |-> TRUE]), DictFlag([enabled |-> FALSE]),
     DictFlag(EmptyDict), BoolFlag(TRUE), BoolFlag(FALSE)}

\* the modes sections a manager is built with: the default one, and the
\* default one with one section replaced or removed
ModesConfigs ==
    {DefaultModes}
    \cup {[DefaultModes EXCEPT ![m] = f] :
             m \in RequestNames \cap DOMAIN DefaultModes, f \in FlagShapes}
    \cup {[k \in DOMAIN DefaultModes \ {m} |-> DefaultModes[k]] :
             m \in RequestNames \cap DOMAIN DefaultModes}

\* the contexts a batch can be handed
Contexts ==
    {[input_data |-> d, metadata |-> m] :
        d \in {None, [a_py |-> [content |-> <<"def", "f", "x">>]]},
        m \in {EmptyDict, [session_id |-> "s1"]}}

ModeInit ==
    /\ modes_config \in ModesConfigs
    /\ FreshManager
    /\ processed_data = <<>>
    /\ merged_content = EmptyDict
    /\ phase = "idle"
    /\ engine = "EnhancementEngine"
    /\ processed_files = <<>>
    /\ runs = 0
    /\ FreshRun
    /\ FreshCli
    /\ FreshCalls

\* a caller invokes execute_multiple_modes(mode_names, context): one task
\* per name is created
Dispatch ==
    /\ mode_pc = "idle"
    /\ \E names \in SeqsUpTo(RequestNames, MaxModes), ctx \in Contexts :
         /\ mode_names' = names
         /\ context' = ctx
         /\ tasks' = [i \in 1..Len(names) |-> [state |-> "pending"]]
    /\ mode_results' = <<>>
    /\ sessions_before' = collaboration_sessions
    /\ mode_pc' = "gathering"
    /\ UNCHANGED <<modes_config, collaboration_sessions>>
    /\ UNCHANGED <<processed_data, merged_content, phase, run_vars, cli_vars,
                   call_vars>>

\* the event loop runs one of the tasks: execute_mode has no point at which
\* it yields, so a task runs from start to end
RunTask ==
    /\ mode_pc = "gathering"
    /\ \E i \in 1..Len(tasks) :
         /\ tasks[i].state = "pending"
         /\ LET r == execute_mode(mode_names[i], context, modes_config,
                                  collaboration_sessions)
            IN  /\ tasks' = [tasks EXCEPT ![i] =
                                [state |-> "done", outcome |-> r.result,
                                 invoked |-> r.invoked]]
                /\ collaboration_sessions' = r.sessions
    /\ UNCHANGED <<modes_config, mode_pc, mode_names, context, mode_results,
                   sessions_before>>
    /\ UNCHANGED <<processed_data, merged_content, phase, run_vars, cli_vars,
                   call_vars>>

\* gather has all results: they are converted and returned
Gather ==
    /\ mode_pc = "gathering"
    /\ \A i \in 1..Len(tasks) : tasks[i].state = "done"
    /\ mode_results' =
          [i \in 1..Len(tasks) |-> GatheredResult(mode_names[i], tasks[i].outcome)]
    /\ mode_pc' = "returned"
    /\ UNCHANGED <<modes_config, collaboration_sessions, mode_names, context,
                   tasks, sessions_before>>
    /\ UNCHANGED <<processed_data, merged_content, phase, run_vars, cli_vars,
                   call_vars>>

\* the caller has the list; the manager can be called again
ModeReturn ==
    /\ mode_pc = "returned"
    /\ mode_pc' = "idle"
    /\ mode_names' = <<>>
    /\ context' = None
    /\ tasks' = <<>>
    /\ mode_results' = <<>>
    /\ sessions_before' = EmptyDict
    /\ UNCHANGED <<modes_config, collaboration_sessions>>
    /\ UNCHANGED <<processed_data, merged_content, phase, run_vars, cli_vars,
                   call_vars>>

ModeNext == Dispatch \/ RunTask \/ Gather \/ ModeReturn

ModeSpec == ModeInit /\ [][ModeNext]_vars

(***************************************************************************)
(* The confidence roll-ups, each applied to every short list of entities   *)
(***************************************************************************)
MaxEntities == 2

\* the confidences an entity can carry, in hundredths
EntityConfidences == {0, 50, 100}

\* the Enhancement objects the engine aggregates
Enhancements ==
    {[class |-> "Enhancement", type |-> t, confidence |-> c] :
        t \in {"fix", "optimization", "enhancement"}, c \in EntityConfidences}

EnhancementLists == UNION {[1..n -> Enhancements] : n \in 0..MaxEntities}

\* what the orchestrator hands to its two roll-ups: dicts with and without
\* a 'confidence' key and result objects that are no dicts
CoreResults ==
    {[confidence |-> c] : c \in EntityConfidences}
    \cup {[issues |-> <<>>]}
    \cup {[class |-> "AnalysisResult", confidence |-> c] :
             c \in EntityConfidences}

CoreResultLists == UNION {[1..n -> CoreResults] : n \in 0..MaxEntities}

EngineRollUps ==
    {"_calculate_fixes_confidence", "_calculate_optimizations_confidence",
     "_calculate_enhancements_confidence"}

CoreRollUps == {"_calculate_confidence", "_calculate_enhancement_confidence"}

ConfidenceInit ==
    /\ processed_data = <<>>
    /\ merged_content = EmptyDict
    /\ phase = "idle"
    /\ engine = "EnhancementEngine"
    /\ processed_files = <<>>
    /\ runs = 0
    /\ FreshRun
    /\ FreshCli
    /\ modes_config = DefaultModes
    /\ FreshManager
    /\ fn = "none"
    /\ args \in EnhancementLists \cup CoreResultLists
    /\ result = <<>>
    /\ analyzer = FreshAnalyzer
    /\ clock = 0
    /\ written = <<>>

\* fn is applied to the arguments the caller holds
Apply(name, value) ==
    /\ fn = "none"
    /\ fn' = name
    /\ result' = value
    /\ UNCHANGED <<processed_data, merged_content, phase, run_vars, mode_vars,
                   cli_vars, args, analyzer, clock, written>>

FixesConfidence ==
    /\ args \in EnhancementLists
    /\ Apply("_calculate_fixes_confidence", _calculate_fixes_confidence(args))

OptimizationsConfidence ==
    /\ args \in EnhancementLists
    /\ Apply("_calculate_optimizations_confidence",
             _calculate_optimizations_confidence(args))

EnhancementsConfidence ==
    /\ args \in EnhancementLists
    /\ Apply("_calculate_enhancements_confidence",
             _calculate_enhancements_confidence(args))

AnalysisConfidence ==
    /\ args \in CoreResultLists
    /\ Apply("_calculate_confidence", _calculate_confidence(args))

EnhancementConfidence ==
    /\ args \in CoreResultLists
    /\ Apply("_calculate_enhancement_confidence",
             _calculate_enhancement_confidence(args))

ConfidenceNext ==
    \/ FixesConfidence
    \/ OptimizationsConfidence
    \/ EnhancementsConfidence
    \/ AnalysisConfidence
    \/ EnhancementConfidence

ConfidenceSpec == ConfidenceInit /\ [][ConfidenceNext]_vars

(***************************************************************************)
(* The scorer and the duplicate test, applied to every pair of texts under *)
(* every configuration                                                     *)
(***************************************************************************)
\* the configurations the orchestrator and its analyzer are built with: none,
\* one that asks for a threshold of 0.5, one that asks for other weights
SimilarityConfigs ==
    {EmptyDict,
     [similarity_threshold |-> 50],
     [similarity_weights |-> <<2, 2, 6>>]}

SimilarityInit ==
    /\ processed_data = <<>>
    /\ merged_content = EmptyDict
    /\ phase = "idle"
    /\ engine = "EnhancementEngine"
    /\ processed_files = <<>>
    /\ runs = 0
    /\ FreshRun
    /\ FreshCli
    /\ modes_config = DefaultModes
    /\ FreshManager
    /\ fn = "none"
    /\ args \in [content1 : Texts, content2 : Texts,
                  config : SimilarityConfigs]
    /\ result = <<>>
    /\ analyzer = FreshAnalyzer
    /\ clock = 0
    /\ written = <<>>

\* ai_analyzer.calculate_similarity(content1, content2)
Score ==
    /\ Apply("calculate_similarity",
             calculate_similarity(args.content1, args.content2))

\* the duplicate loop of _resolve_duplicates over the two texts as the code
\* items of one language
Resolve ==
    /\ Apply("_resolve_duplicates",
             ResolveFrom(<<[source |-> "a.py", content |-> args.content1,
                            metadata |-> EmptyDict],
                           [source |-> "b.py", content |-> args.content2,
                            metadata |-> EmptyDict]>>, 1, {}, <<>>))

\* ai_analyzer._calculate_semantic_similarity(content1, content2)
Semantic ==
    /\ Apply("_calculate_semantic_similarity",
             _calculate_semantic_similarity(args.content1, args.content2))

SimilarityNext == Score \/ Resolve \/ Semantic

SimilaritySpec == SimilarityInit /\ [][SimilarityNext]_vars

(***************************************************************************)
(* The output directory: export_format called format by format, run after  *)
(* run, while the clock advances                                           *)
(***************************************************************************)
MaxFormats == 2

MaxClock == 3

\* the format lists a run can be asked to export
FormatLists ==
    UNION {[1..n -> {"json", "html", "docx"}] : n \in 0..MaxFormats}

ExportInit ==
    /\ processed_data = <<>>
    /\ merged_content = EmptyDict
    /\ phase = "export"
    /\ engine = "EnhancementEngine"
    /\ processed_files = <<>>
    /\ runs = 1
    /\ FreshRun
    /\ FreshCli
    /\ modes_config = DefaultModes
    /\ FreshManager
    /\ fn = "none"
    /\ args \in FormatLists
    /\ result = <<>>
    /\ analyzer = FreshAnalyzer
    /\ clock = 0
    /\ written = <<>>

\* one turn of the loop of export_results: the next requested format is
\* exported; the file it names is written
ExportFormat ==
    /\ args # <<>>
    /\ LET format_type == Head(args)
           out == export_format(format_type, {}, clock)
       IN  /\ result' = out
           /\ written' = IF Raises(out) THEN written
                         ELSE Append(written, [path |-> out.path,
                                               format |-> format_type,
                                               run |-> runs])
    /\ fn' = "export_format"
    /\ args' = Tail(args)
    /\ UNCHANGED <<processed_data, merged_content, phase, run_vars, mode_vars,
                   cli_vars, analyzer, clock>>

\* time passes
Tick ==
    /\ clock < MaxClock
    /\ clock' = clock + 1
    /\ UNCHANGED <<processed_data, merged_content, phase, run_vars, mode_vars,
                   cli_vars, fn, args, result, analyzer, written>>

\* the run is over; the pipeline is run again with its own format list
NextRun ==
    /\ args = <<>>
    /\ runs < MaxRuns
    /\ runs' = runs + 1
    /\ args' \in FormatLists
    /\ UNCHANGED <<processed_data, merged_content, phase, engine, inputs,
                   world, processed_files, analysis_results, enhanced_content,
                   ui_results, optimized_content, security_results,
                   validation_results, exported, final_results, raised,
                   stage_log, mode_vars, cli_vars, fn, result, analyzer,
                   clock, written>>

ExportNext == ExportFormat \/ Tick \/ NextRun

ExportSpec == ExportInit /\ [][ExportNext]_vars

(***************************************************************************)
(* The optimizer on its own: optimize_performance applied to every small   *)
(* content mapping                                                         *)
(***************************************************************************)
MaxKeys == 2

ContentKeys == <<"a", "b", "c">>

\* the code the optimizer can be handed
OptimizerTexts ==
    { <<"x", "=", "1">>,
      <<"for", "i", "in", "range(len(xs))">>,
      <<"ys", "=", "list(map(f,xs))">>,
      <<"for", "x", "in", "map(f,xs)">>,
      <<"list(f(x)", "for", "x", "in", "xs)">>,
      <<"def", "compute", "x">> }

\* the values of a content mapping: records with code, and the entries
\* enhance_content produces, which have no 'content' key
OptimizerValues ==
    {[content |-> t, source |-> "a.py"] : t \in OptimizerTexts}
    \cup {[confidence_score |-> <<0, 1>>]}

ContentMappings ==
    UNION {[{ContentKeys[i] : i \in 1..n} -> OptimizerValues] :
              n \in 0..MaxKeys}

OptimizeInit ==
    /\ processed_data = <<>>
    /\ merged_content = EmptyDict
    /\ phase = "idle"
    /\ engine = "EnhancementEngine"
    /\ processed_files = <<>>
    /\ runs = 0
    /\ FreshRun
    /\ FreshCli
    /\ modes_config = DefaultModes
    /\ FreshManager
    /\ fn = "none"
    /\ \E content \in ContentMappings :
          args = [content |-> content, passed |-> content]
    /\ result = <<>>
    /\ analyzer = FreshAnalyzer
    /\ clock = 0
    /\ written = <<>>

\* a caller invokes optimize_performance(content); args.content is the
\* caller's mapping, args.passed keeps what it was when the call was made
OptimizeCall ==
    /\ fn = "none"
    /\ fn' = "optimize_performance"
    /\ result' = optimize_performance(args.content)
    /\ args' = [args EXCEPT !.content = ContentAfter(args.content)]
    /\ UNCHANGED <<processed_data, merged_content, phase, run_vars, mode_vars,
                   cli_vars, analyzer, clock, written>>

OptimizeNext == OptimizeCall

OptimizeSpec == OptimizeInit /\ [][OptimizeNext]_vars

(***************************************************************************)
(* The enhancement engine's optimizations under every configured threshold *)
(***************************************************************************)
\* the constructs a text can contain that a pattern of the engine matches
Constructs ==
    {"range_len_loop", "append_loop", "length_loop", "nested_loops",
     "concat_in_loop"}

\* enhancement_config['confidence_threshold'], in hundredths; 70 when absent
Thresholds == {70, 80, 90}

ThresholdInit ==
    /\ processed_data = <<>>
    /\ merged_content = EmptyDict
    /\ phase = "idle"
    /\ engine = "EnhancementEngine"
    /\ processed_files = <<>>
    /\ runs = 0
    /\ FreshRun
    /\ FreshCli
    /\ modes_config = DefaultModes
    /\ FreshManager
    /\ fn = "none"
    /\ args \in [content : SUBSET Constructs,
                  language : {"python", "javascript"},
                  confidence_threshold : Thresholds]
    /\ result = <<>>
    /\ analyzer = FreshAnalyzer
    /\ clock = 0
    /\ written = <<>>

\* enhancement_engine.apply_optimizations(data, analysis)
ApplyOptimizations ==
    /\ Apply("apply_optimizations",
             apply_optimizations(args.content, args.language, EmptyDict,
                                 args.confidence_threshold))

ThresholdNext == ApplyOptimizations

ThresholdSpec == ThresholdInit /\ [][ThresholdNext]_vars

(***************************************************************************)
(* The v6 orchestrator: DuckyCoderV6.run_full_pipeline                     *)
(***************************************************************************)
\* the steps of the try block of the v6 run_full_pipeline, in program order
V6Steps ==
    <<"process_inputs", "analyze_content", "enhance_content",
      "generate_output", "export_results", "_validate_pipeline_results">>

V6NextStep(step) ==
    IF step = V6Steps[Len(V6Steps)] THEN "done"
    ELSE V6Steps[(CHOOSE i \in 1..Len(V6Steps) : V6Steps[i] = step) + 1]

\* a step of the v6 run is entered and, when it returns, the next one is due
V6Advance(step) ==
    /\ phase = step
    /\ stage_log' = Append(stage_log, step)
    /\ phase' = V6NextStep(step)

\* the keys of a dict whose entry is not an {"error": ...} entry
V6Sound(dict) == {k \in DOMAIN dict : "error" \notin DOMAIN dict[k]}

\* the v6 process_inputs: one entry per input, the error of a failed one
v6_process_inputs(ins, w) ==
    [k \in Range(ins) |->
        IF "raises" \in DOMAIN w[k] THEN [error |-> w[k].raises] ELSE w[k]]

\* the v6 export_results: the default formats for None, a path per format
\* whose writer returned, "Error: ..." for one whose writer raised
V6Formats(export_formats) ==
    IF export_formats = <<>> THEN <<"markdown", "html", "json">>
    ELSE export_formats

v6_export_results(export_formats, writer_faults) ==
    [f \in Range(V6Formats(export_formats)) |->
        IF f \in writer_faults THEN "Error: writer failed" ELSE <<"report", f>>]

\* the files the writers of the exported formats write, in order
V6Files(export_formats, writer_faults) ==
    LET fmts == V6Formats(export_formats)
        kept == SelectSeq(fmts, LAMBDA f : f \notin writer_faults)
    IN  [i \in 1..Len(kept) |-> <<"report", kept[i]>>]

\* the v6 _validate_pipeline_results
v6_validate_pipeline_results(pd, analysis, enhancement, output_data) ==
    [data_integrity |-> V6Sound(pd) = DOMAIN pd,
     analysis_completeness |-> DOMAIN pd \subseteq V6Sound(analysis),
     enhancement_quality |->
        \A k \in DOMAIN enhancement :
            /\ "error" \notin DOMAIN enhancement[k]
            /\ enhancement[k].confidence_score >= 70,
     output_structure |->
        {"summary", "analysis", "enhancements", "metadata"}
            \subseteq DOMAIN output_data]

\* run_full_pipeline(inputs, export_formats) of a DuckyCoderV6 is called
V6Init ==
    /\ processed_data = EmptyDict
    /\ merged_content = EmptyDict
    /\ phase = "process_inputs"
    /\ engine = "EnhancementEngine"
    /\ processed_files = <<>>
    /\ runs = 1
    /\ inputs \in RunInputs
    /\ world \in [Range(inputs) -> RunOutcomes]
    /\ analysis_results = EmptyDict
    /\ enhanced_content = EmptyDict
    /\ ui_results = EmptyDict
    /\ optimized_content = EmptyDict
    /\ security_results = EmptyDict
    /\ validation_results = EmptyDict
    /\ exported = EmptyDict
    /\ final_results = EmptyDict
    /\ raised = NoneRaised
    /\ stage_log = <<>>
    /\ FreshCli
    /\ FreshCalls
    /\ modes_config = DefaultModes
    /\ FreshManager

\* Step 1
V6ProcessInputs ==
    /\ V6Advance("process_inputs")
    /\ processed_data' = v6_process_inputs(inputs, world)
    /\ UNCHANGED <<merged_content, engine, inputs, world, processed_files,
                   analysis_results, enhanced_content, ui_results,
                   optimized_content, security_results, validation_results,
                   exported, final_results, raised, runs>>
    /\ UNCHANGED <<cli_vars, mode_vars, call_vars>>

\* Step 2: an entry per sound input, an error entry where the analyzer raised
V6AnalyzeContent ==
    /\ V6Advance("analyze_content")
    /\ \E faults \in SUBSET V6Sound(processed_data), c \in EngineConfidences :
         analysis_results' =
            [k \in V6Sound(processed_data) |->
                IF k \in faults THEN [error |-> "analysis failed"]
                ELSE [confidence_score |-> c]]
    /\ UNCHANGED <<processed_data, merged_content, engine, inputs, world,
                   processed_files, enhanced_content, ui_results,
                   optimized_content, security_results, validation_results,
                   exported, final_results, raised, runs>>
    /\ UNCHANGED <<cli_vars, mode_vars, call_vars>>

\* Step 3: an entry per analysed input, an error entry where the engine raised
V6EnhanceContent ==
    /\ V6Advance("enhance_content")
    /\ \E faults \in SUBSET V6Sound(analysis_results),
          c \in EngineConfidences :
         enhanced_content' =
            [k \in V6Sound(analysis_results) |->
                IF k \in faults THEN [error |-> "enhancement failed"]
                ELSE [original |-> processed_data[k],
                      confidence_score |-> c]]
    /\ UNCHANGED <<processed_data, merged_content, engine, inputs, world,
                   processed_files, analysis_results, ui_results,
                   optimized_content, security_results, validation_results,
                   exported, final_results, raised, runs>>
    /\ UNCHANGED <<cli_vars, mode_vars, call_vars>>

\* Step 4: output_data (held in optimized_content), the composed document or
\* {"error": ...} when the composer raised
V6GenerateOutput ==
    /\ V6Advance("generate_output")
    /\ \E composed \in BOOLEAN :
         optimized_content' =
            IF composed
            THEN [summary |-> DOMAIN processed_data,
                  analysis |-> analysis_results,
                  enhancements |-> enhanced_content,
                  metadata |-> [version |-> "6.0.0"]]
            ELSE [error |-> "composition failed"]
    /\ UNCHANGED <<processed_data, merged_content, engine, inputs, world,
                   processed_files, analysis_results, enhanced_content,
                   ui_results, security_results, validation_results,
                   exported, final_results, raised, runs>>
    /\ UNCHANGED <<cli_vars, mode_vars, call_vars>>

\* Step 5: the writers write their files
V6ExportResults ==
    /\ V6Advance("export_results")
    /\ \E choice \in ExportChoices :
         /\ export_request' = choice
         /\ exported' = v6_export_results(choice[1], choice[2])
         /\ written' = written \o V6Files(choice[1], choice[2])
    /\ UNCHANGED <<processed_data, merged_content, engine, inputs, world,
                   processed_files, analysis_results, enhanced_content,
                   ui_results, optimized_content, security_results,
                   validation_results, final_results, raised, runs>>
    /\ UNCHANGED <<command, exit_code, mode_vars, fn, args, result, analyzer,
                   clock>>

\* Step 6 and the return of the results
V6Validate ==
    /\ V6Advance("_validate_pipeline_results")
    /\ validation_results' =
         v6_validate_pipeline_results(processed_data, analysis_results,
                                      enhanced_content, optimized_content)
    /\ final_results' =
         [pipeline_status |-> "completed", export_results |-> exported,
          validation_results |-> validation_results']
    /\ UNCHANGED <<processed_data, merged_content, engine, inputs, world,
                   processed_files, analysis_results, enhanced_content,
                   ui_results, optimized_content, security_results,
                   exported, raised, runs>>
    /\ UNCHANGED <<cli_vars, mode_vars, call_vars>>

V6Next ==
    \/ V6ProcessInputs
    \/ V6AnalyzeContent
    \/ V6EnhanceContent
    \/ V6GenerateOutput
    \/ V6ExportResults
    \/ V6Validate

V6Spec == V6Init /\ [][V6Next]_vars

(***************************************************************************)
(* Properties of the merger                                                *)
(***************************************************************************)
\* the ingested code records of one language, in input order
IsCodeEntry(e, lang) ==
    /\ "error" \notin DOMAIN e[2]
    /\ e[2].type \in {"code", "script"}
    /\ e[2].language = lang

CodeInputs(lang) == SelectSeq(processed_data, LAMBDA e : IsCodeEntry(e, lang))

\* a score above 0.85, written out on the fraction
ScoreAbove85(a, b) ==
    LET s == calculate_similarity(a, b) IN 100 * s[1] > 85 * s[2]

OutputOf(lang) == DictGet(merged_content.combined_code, lang, <<>>)

IsMerged(item) == "v7_merge_info" \in DOMAIN item

\* the identities a canonical record stands for
Provenance(item) ==
    IF IsMerged(item) THEN item.v7_merge_info.sources ELSE <<item.source>>

NoPairAbove ==
    \A lang \in Languages :
        LET in == CodeInputs(lang)
        IN  \A i, j \in 1..Len(in) :
                i < j => ~ ScoreAbove85(in[i][2].content, in[j][2].content)

\* the record the grouping loop makes of an ingested entry
PassThrough(e) ==
    [source |-> e[1], content |-> e[2].content, metadata |-> e[2].metadata]

Untouched ==
    \A lang \in Languages :
        LET in == CodeInputs(lang)
        IN  OutputOf(lang) = [i \in 1..Len(in) |-> PassThrough(in[i])]

\* C2 (as amended): merging a record set in which no pair scores above the
\* threshold returns one canonical record per input record, each the
\* unchanged original with single-element provenance, and merging that
\* output again changes nothing.
C2_DedupIdempotence ==
    (phase \in {"merged", "resolved_again"} /\ NoPairAbove) => Untouched

\* a set with two code records of one language and no pair above the
\* threshold has been merged twice
C2_Witness ==
    /\ phase = "resolved_again"
    /\ NoPairAbove
    /\ \E lang \in Languages : Len(CodeInputs(lang)) >= 2 /\ Len(OutputOf(lang)) >= 2

\* C2 as stated: also the output of any merge is left unchanged by a second
\* merge
C2_Original ==
    [][(phase = "merged" /\ phase' = "resolved_again")
          => merged_content' = merged_content]_vars

\* the ingested entry with identity k
EntryOf(k) == OrderedGet(processed_data, k)

\* C3: the representative of every cluster is its member with the longest
\* text, the earliest in input order among the longest, and the provenance of
\* every canonical record is non-empty.
C3_Representative ==
    phase = "merged" =>
        \A lang \in Languages :
            \A n \in 1..Len(OutputOf(lang)) :
                LET item == OutputOf(lang)[n]
                    prov == Provenance(item)
                IN  /\ Len(prov) >= 1
                    /\ \E r \in 1..Len(prov) :
                          /\ item.content = EntryOf(prov[r]).content
                          /\ \A q \in 1..Len(prov) :
                                StrLen(EntryOf(prov[q]).content) <= StrLen(item.content)
                          /\ \A q \in 1..(r - 1) :
                                StrLen(EntryOf(prov[q]).content) < StrLen(item.content)
                    /\ \A q \in 1..(Len(prov) - 1) :
                          \E i, j \in 1..Len(processed_data) :
                              /\ i < j
                              /\ processed_data[i][1] = prov[q]
                              /\ processed_data[j][1] = prov[q + 1]

\* a cluster of three whose two longest members tie and whose first member
\* is shorter
C3_Witness ==
    /\ phase = "merged"
    /\ \E lang \in Languages :
          \E n \in 1..Len(OutputOf(lang)) :
              LET prov == Provenance(OutputOf(lang)[n])
              IN  /\ Len(prov) = 3
                  /\ StrLen(EntryOf(prov[1]).content) < StrLen(EntryOf(prov[2]).content)
                  /\ StrLen(EntryOf(prov[2]).content) = StrLen(EntryOf(prov[3]).content)
                  /\ EntryOf(prov[2]).content # EntryOf(prov[3]).content

(***************************************************************************)
(* Properties of the orchestrator                                          *)
(***************************************************************************)
\* the phase has been entered by the running (or just finished) run
Entered(stage) == \E i \in DOMAIN stage_log : stage_log[i] = stage

\* the phase has been left normally
Passed(stage) ==
    /\ Entered(stage)
    /\ raised.escaped # stage

\* the records handed to the analyzer and to the enhancer
AnalysisBatch ==
    {k \in DOMAIN merged_content : "error" \notin DOMAIN merged_content[k]}

EnhancementBatch ==
    {k \in DOMAIN analysis_results : "error" \notin DOMAIN analysis_results[k]}

AnalysisKeys == {"syntax", "logic", "context", "security", "confidence_score"}

EnhancementKeys ==
    {"original", "enhanced", "fixes_applied", "optimizations_applied",
     "ui_mockups", "confidence_score"}

\* C4: when the analyzer or the enhancer raises for one record of its batch,
\* that record's result is an error entry, every other record of the batch
\* has its regular result, and the run is still reported as completed.
C4_StageIsolation ==
    /\ Passed("analysis") =>
          \A k \in AnalysisBatch :
              /\ k \in DOMAIN analysis_results
              /\ IF k \in raised.analysis
                 THEN DOMAIN analysis_results[k] = {"error"}
                 ELSE DOMAIN analysis_results[k] = AnalysisKeys
    /\ Passed("enhancement") =>
          \A k \in EnhancementBatch :
              /\ k \in DOMAIN enhanced_content
              /\ IF k \in raised.enhancement
                 THEN DOMAIN enhanced_content[k] = {"error"}
                 ELSE /\ DOMAIN enhanced_content[k] = EnhancementKeys
                      /\ enhanced_content[k].original = analysis_results[k]
    /\ (phase = "done" /\ raised.escaped = "none") =>
          final_results.pipeline_status = "completed"

\* a completed run in which the analyzer raised for one section and the
\* enhancer for another, while other sections were analysed and enhanced
C4_Witness ==
    /\ phase = "done"
    /\ final_results.pipeline_status = "completed"
    /\ raised.analysis = {"combined_code"}
    /\ raised.enhancement = {"cross_references"}
    /\ \E k \in DOMAIN enhanced_content : "enhanced" \in DOMAIN enhanced_content[k]
    /\ "error" \in DOMAIN analysis_results["combined_code"]

\* the inputs of the run whose processing raised
Errored == {k \in Range(inputs) : Raises(world[k])}

\* every identity that occurs in the merged content
MergedIdentities ==
    UNION {UNION {Range(Provenance(merged_content.combined_code[l][i])) :
                     i \in 1..Len(merged_content.combined_code[l])} :
              l \in DOMAIN merged_content.combined_code}
    \cup DOMAIN merged_content.combined_docs
    \cup DOMAIN merged_content.combined_ui
    \cup {n.id : n \in merged_content.dependency_graph.nodes}

C5_Entries ==
    /\ Passed("ingestion") =>
          /\ \A i \in 1..Len(processed_data) : processed_data[i][1] \in Range(inputs)
          /\ \A i, j \in 1..Len(processed_data) :
                processed_data[i][1] = processed_data[j][1] => i = j
          /\ \A k \in Range(inputs) :
                /\ OrderedHas(processed_data, k)
                /\ IF k \in Errored
                   THEN OrderedGet(processed_data, k) =
                            [error |-> world[k].raises, v7_recovery |-> "attempted"]
                   ELSE /\ "error" \notin DOMAIN OrderedGet(processed_data, k)
                        /\ OrderedGet(processed_data, k).content = world[k].content
    /\ Passed("merging") => MergedIdentities \cap Errored = {}

C5_Files ==
    (phase = "ingestion" /\ phase' = "merging") =>
        processed_files' =
            processed_files \o SelectSeq(inputs, LAMBDA k : k \notin Errored)

\* C5: when processing one input raises, the input gets an error entry in
\* processed_data and is not appended to processed_files, the other inputs
\* are processed, every input has exactly one entry, and no errored input
\* occurs in the merged content.
C5_IngestionIsolation == [] C5_Entries /\ [][C5_Files]_vars

\* a run of two inputs of which the first raised and the second was merged
C5_Witness ==
    /\ Passed("merging")
    /\ Len(inputs) = 2
    /\ inputs[1] \in Errored
    /\ inputs[2] \notin Errored
    /\ inputs[2] \in MergedIdentities
    /\ processed_files # <<>>
    /\ processed_files[Len(processed_files)] = inputs[2]

\* C9: the phases run in the one fixed order of the nine stages, none of
\* them twice, and a run reported as completed has run all nine.
C9_StageOrder ==
    /\ Len(stage_log) <= Len(StageOrder)
    /\ stage_log = SubSeq(StageOrder, 1, Len(stage_log))
    /\ (phase = "done" /\ final_results.pipeline_status = "completed") =>
          stage_log = StageOrder

\* a completed run
C9_Witness ==
    /\ phase = "done"
    /\ final_results.pipeline_status = "completed"
    /\ Len(stage_log) = 9
    /\ inputs # <<>>

\* C10: the status of a finished run is "failed" exactly when an exception
\* escaped a phase; otherwise it is "completed", validation issues and
\* failed exports notwithstanding.
C10_FinalStatus ==
    phase = "done" =>
        /\ final_results.pipeline_status \in {"completed", "failed"}
        /\ final_results.pipeline_status = "failed" <=> raised.escaped # "none"

\* a completed run with validation issues and a failed export
C10_Witness ==
    /\ phase = "done"
    /\ raised.escaped = "none"
    /\ final_results.pipeline_status = "completed"
    /\ validation_results.issues # <<>>
    /\ Errored # {}
    /\ \E f \in DOMAIN exported : "error" \in DOMAIN exported[f]

(***************************************************************************)
(* Properties of the mode dispatcher                                       *)
(***************************************************************************)
ModeResultFields == {"mode_name", "success", "data", "error", "status"}

\* what execute_mode returns for the i-th name when it is the only call made
\* on the manager as it was when the batch was started
Alone(i) ==
    execute_mode(mode_names[i], context, modes_config, sessions_before).result

\* what the handler of the i-th name does
HandlerOut(i) ==
    Handler(mode_names[i], context, modes_config, sessions_before).out

\* C6: execute_multiple_modes returns, whatever the order in which the mode
\* tasks ran, one ModeResult per requested name at the position of the name;
\* a mode whose handler raised has a failed result with the error message,
\* and every result is the one the mode has when it is dispatched alone.
C6_ModeIsolation ==
    mode_pc = "returned" =>
        /\ Len(mode_results) = Len(mode_names)
        /\ \A i \in 1..Len(mode_names) :
              /\ DOMAIN mode_results[i] = ModeResultFields
              /\ mode_results[i].mode_name = mode_names[i]
              /\ mode_results[i].status # "exception"
              /\ (tasks[i].invoked /\ Raises(HandlerOut(i))) =>
                     /\ mode_results[i].success = FALSE
                     /\ mode_results[i].error = HandlerOut(i).raises
              /\ mode_results[i] = Alone(i)

\* a batch of two modes in which the handler of the first raised and the
\* second succeeded
C6_Witness ==
    /\ mode_pc = "returned"
    /\ Len(mode_names) = 2
    /\ tasks[1].invoked
    /\ Raises(HandlerOut(1))
    /\ mode_results[1].success = FALSE
    /\ tasks[2].invoked
    /\ mode_results[2].success = TRUE

\* C7: a name that is not in the handler registry invokes no handler and
\* gets a result with success = false whose error names the unknown mode;
\* nothing is raised and the other results of the batch are not affected.
C7_UnknownMode ==
    \A i \in 1..Len(tasks) :
        (tasks[i].state = "done" /\ mode_names[i] \notin DOMAIN mode_handlers) =>
            /\ tasks[i].invoked = FALSE
            /\ ~ Raises(tasks[i].outcome)
            /\ tasks[i].outcome.success = FALSE
            /\ tasks[i].outcome.error = "Unknown mode: " \o mode_names[i]
            /\ mode_pc = "returned" =>
                  /\ mode_results[i] = tasks[i].outcome
                  /\ \A j \in 1..Len(tasks) : j # i => mode_results[j] = Alone(j)

\* a batch of an unknown name followed by a mode that succeeded
C7_Witness ==
    /\ mode_pc = "returned"
    /\ Len(mode_names) = 2
    /\ mode_names[1] = "nonexistent_mode"
    /\ mode_results[1].error = "Unknown mode: nonexistent_mode"
    /\ tasks[2].invoked
    /\ mode_results[2].success = TRUE

\* the flag of a mode says disabled: a mapping with enabled false, or the
\* plain boolean false
FlagDisabled(flag) ==
    \/ flag.kind = "dict" /\ DictGet(flag.dict, "enabled", TRUE) = FALSE
    \/ flag.kind = "bool" /\ flag.flag = FALSE

\* C8: dispatching a registered mode whose flag is disabled, in whichever
\* shape the configuration writes the flag, invokes no handler and gives a
\* result with success = false and the "disabled" error.
C8_DisabledFlag ==
    \A i \in 1..Len(tasks) :
        ( /\ tasks[i].state = "done"
          /\ mode_names[i] \in DOMAIN mode_handlers
          /\ mode_names[i] \in DOMAIN modes_config
          /\ FlagDisabled(modes_config[mode_names[i]]) ) =>
            /\ tasks[i].invoked = FALSE
            /\ tasks[i].outcome.success = FALSE
            /\ tasks[i].outcome.error = "Mode " \o mode_names[i] \o " is disabled"

(***************************************************************************)
(* Properties of the evaluators the orchestrator calls                     *)
(***************************************************************************)
\* an evaluator called by the run raised
EvaluatorRaised ==
    \/ raised.analysis # {}
    \/ raised.enhancement # {}
    \/ raised.escaped \in {"ui_generation", "optimization", "security"}

\* C11: an error raised by any evaluator of the run (analyzer, enhancer, UI
\* renderer, performance optimizer, security scanner) does not abort the
\* run: the run goes through validation and export and ends "completed".
C11_EvaluatorIsolation ==
    (phase = "done" /\ EvaluatorRaised) =>
        /\ Entered("validation")
        /\ Entered("export")
        /\ final_results.pipeline_status = "completed"


\* the export phase has run and the run has compiled its results
Exported == phase = "done" /\ Entered("export")

RequestedFormats == Range(export_request[1])

FailingFormats ==
    {f \in RequestedFormats :
        f \notin DOMAIN EXPORT_FORMATS \/ f \in export_request[2]}

\* C12: the export map of a run has exactly one entry per requested format;
\* the entry of a format that is unsupported or whose writer failed is an
\* error, the entry of every other requested format is the path written,
\* whatever happened to the other formats
C12_ExportIsolation ==
    Exported =>
        /\ DOMAIN exported = RequestedFormats
        /\ final_results.export_results = exported
        /\ \A f \in RequestedFormats :
              IF f \in FailingFormats
              THEN DOMAIN exported[f] = {"error"}
              ELSE DOMAIN exported[f] = {"path"}

\* a run in which one requested format failed and another one was written
C12_Witness ==
    /\ Exported
    /\ \E f, g \in DOMAIN exported :
          /\ "error" \in DOMAIN exported[f]
          /\ "path" \in DOMAIN exported[g]

\* C13: main exits with 0 when the command is version or config, and the
\* process command exits with 0 exactly when the run it made returned with
\* pipeline_status "completed", with 1 otherwise
C13_InfoCommands == command \in {"version", "config"} => exit_code = 0

C13_ProcessExit ==
    (phase = "done" /\ phase' = "idle") =>
        /\ command' = "process"
        /\ exit_code' \in {0, 1}
        /\ exit_code' = 0 <=> final_results.pipeline_status = "completed"

AggregatedType ==
    [_calculate_fixes_confidence |-> "fix",
     _calculate_optimizations_confidence |-> "optimization",
     _calculate_enhancements_confidence |-> "enhancement"]

\* the confidences of the entities the applied roll-up aggregates: the
\* entities of its type for the engine, the entries that carry a confidence
\* for the orchestrator
AggregatedConfidences ==
    IF fn \in EngineRollUps THEN ConfidencesOfType(args, AggregatedType[fn])
    ELSE LET with == SelectSeq(args, LAMBDA a : "confidence" \in DOMAIN a)
         IN  [i \in 1..Len(with) |-> with[i].confidence]

\* the arithmetic mean as a fraction, 0.0 for the empty list
MeanOf(confidences) ==
    IF confidences = <<>> THEN <<0, 1>>
    ELSE <<SumConfidence(confidences), 100 * Len(confidences)>>

SameFraction(p, q) == p[1] * q[2] = q[1] * p[2]

\* C14: every roll-up returns the arithmetic mean of the confidences of the
\* entities it aggregates, and 0.0 when there is none
C14_ConfidenceMean ==
    fn \in EngineRollUps \cup CoreRollUps =>
        SameFraction(result, MeanOf(AggregatedConfidences))

\* C15: with every entity confidence in [0,1], every roll-up returns a value
\* in [0,1]
C15_ConfidenceBounds ==
    fn \in EngineRollUps \cup CoreRollUps =>
        /\ result[2] > 0
        /\ 0 <= result[1]
        /\ result[1] <= result[2]

\* a roll-up over two fixes of confidence 1.0 that returned 1.0
C15_Witness ==
    /\ fn = "_calculate_fixes_confidence"
    /\ Len(ConfidencesOfType(args, "fix")) >= 2
    /\ \A i \in 1..Len(args) : args[i].confidence = 100
    /\ SameFraction(result, <<1, 1>>)


(***************************************************************************)
(* Properties of the scorer                                                *)
(***************************************************************************)
\* the token set of a text: its lower-cased words outside comments
TokenSet(c) == {Lower(c[i]) : i \in {k \in DOMAIN c :
                    \A h \in 1..k : c[h] \notin CommentLexemes}}

\* Jaccard similarity of two sets, 0 when either is empty
Jaccard(A, B) ==
    IF A = {} \/ B = {} THEN <<0, 1>>
    ELSE <<Cardinality(A \cap B), Cardinality(A \cup B)>>

\* w[1]*st + w[2]*se + w[3]*sy over 10, clamped to [0,1]
Weighted(w, st, se, sy) ==
    LET num == w[1] * st[1] * se[2] * sy[2] + w[2] * se[1] * st[2] * sy[2]
                 + w[3] * sy[1] * st[2] * se[2]
        den == 10 * st[2] * se[2] * sy[2]
    IN  IF num < 0 THEN <<0, 1>> ELSE IF num > den THEN <<1, 1>>
        ELSE <<num, den>>

ScoreWith(w) ==
    LET tokens1 == _tokenize_code(args.content1)
        tokens2 == _tokenize_code(args.content2)
    IN  Weighted(w, Jaccard(TokenSet(args.content1), TokenSet(args.content2)),
                 _calculate_semantic_similarity(args.content1, args.content2),
                 _calculate_syntactic_similarity(tokens1, tokens2))

\* C16: calculate_similarity returns 0.4 * structural + 0.4 * semantic
\* + 0.2 * syntactic clamped to [0,1], the structural part being the Jaccard
\* similarity of the token sets (0 when either set is empty), and leaves the
\* analyzer as it was
C16_Result ==
    fn = "calculate_similarity" =>
        /\ SameFraction(result, ScoreWith(<<4, 4, 2>>))
        /\ result[2] > 0 /\ 0 <= result[1] /\ result[1] <= result[2]
        /\ (TokenSet(args.content1) = {} \/ TokenSet(args.content2) = {}) =>
              SameFraction(_calculate_structural_similarity(
                               _tokenize_code(args.content1),
                               _tokenize_code(args.content2)), <<0, 1>>)

C16_NoSideEffect == fn' = "calculate_similarity" => analyzer' = analyzer

C16_Similarity == [] C16_Result /\ [][C16_NoSideEffect]_vars

\* two texts with different, overlapping token sets have been scored
C16_Witness ==
    /\ fn = "calculate_similarity"
    /\ TokenSet(args.content1) # TokenSet(args.content2)
    /\ TokenSet(args.content1) \cap TokenSet(args.content2) # {}
    /\ 0 < result[1] /\ result[1] < result[2]

\* the threshold and the weights the configuration asks for
ConfiguredThreshold == DictGet(args.config, "similarity_threshold", 85)

ConfiguredWeights == DictGet(args.config, "similarity_weights", <<4, 4, 2>>)

\* C17: the merger collapses two records exactly when their score exceeds
\* the configured threshold, and the score is combined with the configured
\* weights; without configuration these are 0.85 and 0.4/0.4/0.2
C17_Configurable ==
    /\ fn = "calculate_similarity" =>
          SameFraction(result, ScoreWith(ConfiguredWeights))
    /\ fn = "_resolve_duplicates" =>
          (Len(result) = 1 <=>
              100 * ScoreWith(ConfiguredWeights)[1]
                  > ConfiguredThreshold * ScoreWith(ConfiguredWeights)[2])


(***************************************************************************)
(* Properties of the validation phase                                      *)
(***************************************************************************)
\* the inputs of the run that were ingested without error
Ingested == Range(inputs) \ Errored

\* the inputs the validation phase reports as not analysed
ReportedIncomplete ==
    {k \in Range(inputs) :
        \E i \in DOMAIN validation_results.issues :
            validation_results.issues[i] = <<"Analysis incomplete for", k>>}

\* C18: after validation every input that was ingested without error has an
\* entry in the analysis results, and "Analysis incomplete" is recorded only
\* for inputs whose ingestion failed or, when the analyzer raised, whose
\* analysis failed
C18_AnalysisComplete ==
    Passed("validation") =>
        /\ \A k \in Ingested : k \in DOMAIN analysis_results
        /\ raised.analysis = {} => ReportedIncomplete \subseteq Errored


(***************************************************************************)
(* Properties of the output directory                                      *)
(***************************************************************************)
\* C19: every export writes duckycoder_report_<timestamp><ext>, and no two
\* exports write to the same path: not two formats of one run, not one
\* format in two runs, not a format requested twice in one run
C19_PathUnique ==
    /\ \A i \in DOMAIN written :
          /\ written[i].path[1] = "duckycoder_report"
          /\ written[i].path[3] = EXPORT_FORMATS[written[i].format]
    /\ \A i, j \in DOMAIN written :
          written[i].path = written[j].path => i = j


(***************************************************************************)
(* Properties of the optimizer                                             *)
(***************************************************************************)
\* C20: optimize_performance leaves the content mapping passed to it, with
\* every nested record's content and keys, as it was before the call
C20_ContentUnchanged ==
    fn = "optimize_performance" => args.content = args.passed


(***************************************************************************)
(* Properties of the clustering                                            *)
(***************************************************************************)
RECURSIVE Owner(_, _)
\* the record that claims record j of the group: the earliest record before
\* j that is itself unclaimed and scores above 0.85 with j, else j itself
Owner(in, j) ==
    LET claimers == {i \in 1..(j - 1) :
                        /\ Owner(in, i) = i
                        /\ ScoreAbove85(in[i][2].content, in[j][2].content)}
    IN  IF claimers = {} THEN j
        ELSE CHOOSE i \in claimers : \A h \in claimers : i <= h

\* the output records whose provenance names the identity
Holders(out, k) ==
    {n \in 1..Len(out) :
        \E q \in 1..Len(Provenance(out[n])) : Provenance(out[n])[q] = k}

C22_SameGroup ==
    phase = "merged" =>
        /\ \A lang \in DOMAIN merged_content.combined_code :
              \A n \in 1..Len(OutputOf(lang)) :
                  \A q \in 1..Len(Provenance(OutputOf(lang)[n])) :
                      LET e == EntryOf(Provenance(OutputOf(lang)[n])[q])
                      IN  /\ e.type \in {"code", "script"}
                          /\ e.language = lang
        /\ \A k \in DOMAIN merged_content.combined_docs :
              /\ EntryOf(k).type \in {"documentation", "markdown", "text"}
              /\ merged_content.combined_docs[k] = EntryOf(k).content
        /\ \A k \in DOMAIN merged_content.combined_ui :
              merged_content.combined_ui[k] = EntryOf(k)

\* two code records with the same text and different languages were kept
\* apart, while a third record was collapsed with the one of its language
C22_Witness ==
    /\ phase = "merged"
    /\ \E i, j \in 1..Len(processed_data) :
          LET a == processed_data[i][2]
              b == processed_data[j][2]
          IN  /\ "error" \notin DOMAIN a /\ "error" \notin DOMAIN b
              /\ a.type = "code" /\ b.type = "code"
              /\ a.language # b.language
              /\ a.content = b.content
              /\ ScoreAbove85(a.content, b.content)
              /\ Holders(OutputOf(a.language), processed_data[i][1])
                    # {}
              /\ Holders(OutputOf(a.language), processed_data[j][1]) = {}
    /\ \E lang \in Languages :
          \E n \in 1..Len(OutputOf(lang)) : IsMerged(OutputOf(lang)[n])


\* the set of function names a text defines
NamesOf(c) == Range(FindNames("def", c)) \cup Range(FindNames("function", c))

\* C23: the semantic component is the number of common names over the size
\* of the larger of the two name sets, 0.5 when names are missing; it is 1
\* whenever both texts define the same non-empty set of names
C23_Semantic ==
    fn = "_calculate_semantic_similarity" =>
        LET names_a == NamesOf(args.content1)
            names_b == NamesOf(args.content2)
        IN  /\ SameFraction(result,
                  IF names_a = {} \/ names_b = {} THEN <<1, 2>>
                  ELSE <<Cardinality(names_a \cap names_b),
                         Max2(Cardinality(names_a), Cardinality(names_b))>>)
            /\ (names_a = names_b /\ names_a # {}) =>
                  SameFraction(result, <<1, 1>>)


(***************************************************************************)
(* Properties of the enhancement engine                                    *)
(***************************************************************************)
\* C24: whatever threshold is configured, the engine emits no Enhancement
\* whose confidence is below it
C24_Filtered ==
    fn = "apply_optimizations" =>
        \A i \in 1..Len(result) :
            result[i].confidence >= args.confidence_threshold

(***************************************************************************)
(* Properties of the v6 orchestrator                                       *)
(***************************************************************************)
\* C25: in the v6 run_full_pipeline no export artifact is written, and the
\* export step is not entered, before the run's results have been validated
C25_ValidateBeforeExport ==
    /\ written # <<>> => validation_results # EmptyDict
    /\ \A i \in 1..Len(stage_log) :
         stage_log[i] = "export_results" =>
            \E j \in 1..(i - 1) : stage_log[j] = "_validate_pipeline_results"

(***************************************************************************)
(* Properties of the merge output                                          *)
(***************************************************************************)
\* the identities the merge output stands for: the provenance of the code
\* records, the documents and the UI records
Represented ==
    UNION {UNION {Range(Provenance(merged_content.combined_code[l][n])) :
                     n \in 1..Len(merged_content.combined_code[l])} :
              l \in DOMAIN merged_content.combined_code}
    \cup DOMAIN merged_content.combined_docs
    \cup DOMAIN merged_content.combined_ui

\* C26: every input ingested without error is represented in the merge
\* output, whatever its detected content type
C26_NoRecordLost ==
    phase = "merged" =>
        \A i \in 1..Len(processed_data) :
            "error" \notin DOMAIN processed_data[i][2]
                => processed_data[i][1] \in Represented

(***************************************************************************)
(* Properties of identical texts                                           *)
(***************************************************************************)
\* C27: a text compared with itself scores above the 0.85 threshold, and two
\* records of one language with the same text are collapsed into one
\* canonical record
C27_IdenticalCollapse ==
    args.content1 = args.content2 =>
        /\ fn = "calculate_similarity" => AboveThreshold(result)
        /\ fn = "_resolve_duplicates" => Len(result) = 1

(***************************************************************************)
(* Properties of the pipeline metrics                                      *)
(***************************************************************************)
\* the inputs of the running call that were ingested without error
IngestedNow == {i \in 1..Len(inputs) : ~ Raises(world[inputs[i]])}

\* C28: the files_processed a completed run reports is the number of inputs
\* of that run that were ingested without error, whatever ran before on the
\* same instance
C28_FilesProcessed ==
    (phase = "done" /\ final_results.pipeline_status = "completed") =>
        final_results.pipeline_metrics.files_processed
            = Cardinality(IngestedNow)

(***************************************************************************)
(* Properties of the enabled checks                                        *)
(***************************************************************************)
\* the modes whose handler defaults a missing enabled key to False
OptInModes ==
    {"realtime_collaboration", "continuous_integration", "quantum_computing"}

\* C29: a successful result of realtime_collaboration, continuous_integration
\* or quantum_computing never carries a "not enabled" error in its data,
\* whatever the configuration says or leaves out about the mode
C29_EnabledAgree ==
    \A i \in 1..Len(tasks) :
        ( /\ tasks[i].state = "done"
          /\ mode_names[i] \in OptInModes
          /\ tasks[i].outcome.success ) =>
            "error" \notin DOMAIN tasks[i].outcome.data

(***************************************************************************)
(* Properties of the collaboration sessions                                *)
(***************************************************************************)
\* the session id a dispatch of the current batch joins
SessionId == DictGet(context.metadata, "session_id", "default")

\* the i-th task of the batch runs in this step
Runs(i) == tasks[i].state = "pending" /\ tasks'[i].state = "done"

\* C30: a step never removes or changes a session record; a record is added
\* only by a realtime_collaboration dispatch, for the id of its context, and
\* only when the id had none; every other dispatch leaves
\* collaboration_sessions as it is
C30_SessionOnce ==
    [][ /\ \A s \in DOMAIN collaboration_sessions :
             /\ s \in DOMAIN collaboration_sessions'
             /\ collaboration_sessions'[s] = collaboration_sessions[s]
        /\ collaboration_sessions' # collaboration_sessions =>
             /\ DOMAIN collaboration_sessions'
                  = DOMAIN collaboration_sessions \cup {SessionId}
             /\ \E i \in 1..Len(tasks) :
                   /\ Runs(i)
                   /\ mode_names[i] = "realtime_collaboration"
                   /\ tasks'[i].invoked
      ]_vars

\* a batch of two realtime_collaboration dispatches for an id whose session
\* an earlier batch created: both joined it and the record is as it was
C30_Witness ==
    /\ mode_pc = "returned"
    /\ mode_names = <<"realtime_collaboration", "realtime_collaboration">>
    /\ SessionId \in DOMAIN sessions_before
    /\ \A i \in 1..2 :
          /\ tasks[i].invoked
          /\ mode_results[i].success
          /\ "error" \notin DOMAIN mode_results[i].data
          /\ mode_results[i].data.session_id = SessionId
    /\ collaboration_sessions = sessions_before

====
